---- MODULE Spec2Model ----
(***************************************************************************)
(* Model of src/app.py, the packaging-material ledger application          *)
(* ("receiving-and-shipping").  The module holds several specifications,   *)
(* one per part of the program:                                            *)
(*                                                                         *)
(*   SpecPick    pick_col / excel_col_to_index (column resolver)           *)
(*   SpecEst     the label core-weight estimator of the label tab          *)
(*   SpecCalc    the label quantity calculator of the label tab            *)
(*   SpecSearch  the part-to-order search tab                              *)
(*   SpecReturn  the return tab: load return data, clear                   *)
(*   SpecReturnEdit  the return tab with the editor form: load, save,      *)
(*               auto-fill of the extra orders, clear                      *)
(*   SpecReturnReload  the return tab of a session that loads a new ledger *)
(*   SpecPdf     generate_label_pdf on the rows ticked in the return tab   *)
(*   SpecCommon  the common-material tab                                   *)
(*   SpecAgg     build_aggregates and recalc_return_expectation on their   *)
(*               own, over ledgers with repeated keys and missing columns  *)
(*   SpecLoad    one call of a loader of the blob store                    *)
(*   SpecStore   sessions uploading ledgers, opening tabs, importing the   *)
(*               label table, against one bucket and one process cache     *)
(*                                                                         *)
(* Column headers of the source are Korean; TLA+ strings are ASCII, so     *)
(* the model writes them romanised.  Glossary:                             *)
(*   suju      수주번호 order number      jisi    지시번호 work-order number  *)
(*   part      품번 part number           real_in 현장실물입고 physical receipt *)
(*   erp_out   ERP불출수량                 prod    생산수량 produced quantity  *)
(*   qc        QC샘플                      etc     기타샘플 other sample        *)
(*   unit      단위수량 unit quantity      wonbul  원불 material fault         *)
(*   jakbul    작불 process fault          expect  예상재고 expected stock     *)
(*   erp_stock ERP재고                                                      *)
(***************************************************************************)
EXTENDS Integers, Sequences, FiniteSets, TLC

VARIABLES
    pk_cols,        \* pick_col: list(df.columns) of the table passed in
    pk_letter,      \* pick_col: the letter argument, a sequence of characters
    pk_names,       \* pick_col: the preferred_names argument
    pk_result,      \* pick_col: the returned value ("unset" before the call)
    new_od,         \* label tab: number_input "label_new_od", in 0.1 mm
    new_id,         \* label tab: number_input "label_new_id", in 0.1 mm
    new_h,          \* label tab: number_input "label_new_h", in 0.1 mm
    est_val_preview,\* label tab: the value shown by st.metric, in 0.01 g
    est_val,        \* label tab: the value computed by the save handler
    est_pc,         \* label tab: "input", "previewed", "saved", "rejected"
    selected_row,   \* label calculator: the label row selected
    row_selected,   \* label calculator: FALSE when selected_row is None
    core_weight_default, \* label calculator: the weight the info text names
    core_source,    \* label calculator: "measured" or "estimate"
    core_weight_input,   \* label calculator: value offered by the number_input
    calc_pc,        \* label calculator: "input", "shown", "raised"
    df_bom_raw,     \* order search: the BOM table, rows [item, comp]
    df_suju_raw,    \* order search: the sales-order table, rows [suju, part, due]
    sr_pc,          \* order search: "input" before the run, "done" after it
    sr_level,       \* order search: BOM level whose codes matched (0: none)
    sr_searched,    \* order search: BOM levels whose codes were looked up
    df_suju_hit,    \* order search: df_suju_hit when the run ends
    used_bom2_flow, \* order search: the flag of the same name
    sr_evaluated,   \* order search: the date windows filtered, in order
    df_show,        \* order search: the rows of the date-window table shown
    df_suju_bom2,   \* order search: the rows of the third-level table shown
    df_in_raw,      \* ledger: the receipts table (입고)
    df_job_raw,     \* ledger: the work-order table (작업지시)
    df_result_raw,  \* ledger: the production-result table (생산실적)
    df_defect_raw,  \* ledger: the defect table (불량)
    df_stock_raw,   \* ledger: the inventory table (재고)
    resolved,       \* ledger: per sheet, whether pick_col resolves its columns
    aggregates,     \* session_state["aggregates"]
    return_mgmt,    \* session_state["환입관리"]
    return_expect,  \* session_state["환입재고예상"]
    rt_pc,          \* return tab: outcome of the last button run
    load_inp,       \* return tab: suju_no, selected_jisi and the ticked BOM
                    \* rows of the press that made the present 환입관리
    df_edit,        \* return tab: the editor content of the last form submit
                    \* on the present 환입재고예상
    date_range,     \* return tab: the receipt period of the last auto-fill
                    \* on the present 환입재고예상
    ld_client,      \* loader call: whether s3_client is a client (not None)
    ld_code,        \* loader call: how get_object answers
    ld_body,        \* loader call: the body get_object returns when it answers
    ld_call,        \* loader call: the loader called ("none" before the call)
    ld_result,      \* loader call: what the loader returned, showed, raised
    s3_excel,       \* bucket: the object bulk-ledger.xlsx
    s3_db,          \* bucket: the object inout.db
    s3_label,       \* bucket: the object label_db.csv
    memo_db,        \* st.cache_data entry of load_db_from_s3
    memo_label,     \* st.cache_data entry of load_label_db_from_s3
    label_db,       \* per session: session_state["label_db"]
    df_init,        \* per session: the table parsed in an import under way
    file_bytes,     \* per session: the workbook of an upload under way
    outcome,        \* the gravest message shown, or the exception that
                    \* ended the run, in the latest step of any session
    last_run,       \* the latest step: the menu chosen, and whether the
                    \* code of that tab was reached
    lbl_full,       \* label PDF: the rows of df_full, with their 라벨선택 tick
    story,          \* label PDF: the flowables of the document, in order
    pdf_pc,         \* label PDF: outcome of the run
    cm_in,          \* common-material tab: the receipts table (입고)
    cm_bom_hit,     \* common-material tab: the items whose BOM uses the part
    cm_result,      \* common-material tab: result_rows
    cm_pc           \* common-material tab: outcome of the run

pickVars == <<pk_cols, pk_letter, pk_names, pk_result>>
estVars == <<new_od, new_id, new_h, est_val_preview, est_val, est_pc>>
calcVars ==
    <<selected_row, row_selected, core_weight_default, core_source,
      core_weight_input, calc_pc>>
searchVars ==
    <<df_bom_raw, df_suju_raw, sr_pc, sr_level, sr_searched, df_suju_hit,
      used_bom2_flow,
      sr_evaluated, df_show, df_suju_bom2>>
returnVars ==
    <<df_in_raw, df_job_raw, df_result_raw, df_defect_raw, df_stock_raw,
      resolved, aggregates, return_mgmt, return_expect, rt_pc,
      load_inp, df_edit, date_range>>
loadVars == <<ld_client, ld_code, ld_body, ld_call, ld_result>>
storeVars ==
    <<s3_excel, s3_db, s3_label, memo_db, memo_label, label_db, df_init,
      file_bytes, outcome, last_run>>
pdfVars == <<lbl_full, story, pdf_pc>>
commonVars == <<cm_in, cm_bom_hit, cm_result, cm_pc>>
vars ==
    <<pickVars, estVars, calcVars, pdfVars, commonVars, searchVars,
      returnVars, loadVars, storeVars>>

\* The value Python's None is modelled by.
None == "None"

\* A variable of a part of the program that a specification does not run.
Idle == "idle"

Min(S) == CHOOSE x \in S : \A y \in S : x <= y

-----------------------------------------------------------------------------
(* pick_col and excel_col_to_index                                         *)

Letters ==
    <<"A", "B", "C", "D", "E", "F", "G", "H", "I", "J", "K", "L", "M",
      "N", "O", "P", "Q", "R", "S", "T", "U", "V", "W", "X", "Y", "Z">>

LowerLetters ==
    <<"a", "b", "c", "d", "e", "f", "g", "h", "i", "j", "k", "l", "m",
      "n", "o", "p", "q", "r", "s", "t", "u", "v", "w", "x", "y", "z">>

\* str.upper() on one character
Upper(ch) ==
    IF \E i \in 1..26 : LowerLetters[i] = ch
    THEN Letters[CHOOSE i \in 1..26 : LowerLetters[i] = ch]
    ELSE ch

IsAZ(ch) == \E i \in 1..26 : Letters[i] = ch

\* ord(ch) - ord("A") + 1
OrdFromA(ch) == CHOOSE i \in 1..26 : Letters[i] = ch

RECURSIVE ColAccumulate(_, _)
\* the for loop of excel_col_to_index over the characters still to read
ColAccumulate(result, rest) ==
    IF rest = <<>> THEN result
    ELSE LET ch == Upper(Head(rest))
         IN  IF ~IsAZ(ch)
             THEN ColAccumulate(result, Tail(rest))
             ELSE ColAccumulate(result * 26 + OrdFromA(ch), Tail(rest))

excel_col_to_index(col_letter) == ColAccumulate(0, col_letter) - 1

InColumns(name, cols) == \E i \in 1..Len(cols) : cols[i] = name

\* Mutant of pick_col: the positional lookup is tried before the names.
pick_col_letter_first(cols, letter, preferred_names) ==
    LET idx == excel_col_to_index(letter)
    IN  IF 0 <= idx /\ idx < Len(cols) THEN cols[idx + 1]
        ELSE IF \E k \in 1..Len(preferred_names) :
                    InColumns(preferred_names[k], cols)
        THEN preferred_names[Min({k \in 1..Len(preferred_names) :
                                     InColumns(preferred_names[k], cols)})]
        ELSE None

pick_col(cols, letter, preferred_names) ==
    IF \E k \in 1..Len(preferred_names) : InColumns(preferred_names[k], cols)
    THEN preferred_names[Min({k \in 1..Len(preferred_names) :
                                 InColumns(preferred_names[k], cols)})]
    ELSE LET idx == excel_col_to_index(letter)
         IN  IF 0 <= idx /\ idx < Len(cols) THEN cols[idx + 1] ELSE None

\* Widest table the resolver is tried on (column AH is the 34th).
MaxWidth == 34

PickWidths == {0, 1, 2, 3, 26, 27, 33, MaxWidth}

\* Where a named header may sit in a generated table (0: not present).
PickPlaces == {0, 1, 2, 3, 33, 34}

\* A header that no preferred list names.
OtherHeader(i) == "col" \o ToString(i)

PickTable(n, pQc, pEtc) ==
    [i \in 1..n |-> IF i = pQc THEN "qc"
                    ELSE IF i = pEtc THEN "etc"
                    ELSE OtherHeader(i)]

PickTables ==
    {PickTable(n, pQc, pEtc) :
        n \in PickWidths,
        pQc \in PickPlaces,
        pEtc \in PickPlaces}

PickLetterInputs ==
    {<<"A">>, <<"B">>, <<"C">>, <<"Z">>, <<"A", "A">>, <<"A", "G">>,
     <<"A", "H">>, <<"a", "g">>, <<"A", "1">>, <<>>}

PickNameInputs ==
    {<<>>, <<"qc">>, <<"etc">>, <<"qc", "etc">>, <<"etc", "qc">>,
     <<"missing", "etc">>}

PickInit ==
    /\ pk_cols \in PickTables
    /\ pk_letter \in PickLetterInputs
    /\ pk_names \in PickNameInputs
    /\ pk_result = "unset"

PickColCall ==
    /\ pk_result = "unset"
    /\ pk_result' = pick_col(pk_cols, pk_letter, pk_names)
    /\ UNCHANGED <<pk_cols, pk_letter, pk_names>>

PickIdle ==
    /\ pk_cols = <<>>
    /\ pk_letter = <<>>
    /\ pk_names = <<>>
    /\ pk_result = Idle

-----------------------------------------------------------------------------
(* Label tab: estimated core weight from outer diameter, inner diameter    *)
(* and height.  Lengths are in 0.1 mm, weights in 0.01 g, so that the      *)
(* source's 3.14 * h * ((od**2 - id**2) / 4.0) * 0.78 is the rational      *)
(* 314 * 78 * h * (od^2 - id^2) / (100 * 100 * 4 * 1000) grams.            *)

\* round(x, 2) in hundredths, x being the rational num / den with den > 0
\* already scaled to hundredths: the nearest integer, a tie to the even one.
Round2(num, den) ==
    LET q == num \div den
        r == num % den
    IN  IF 2 * r < den THEN q
        ELSE IF 2 * r > den THEN q + 1
        ELSE IF q % 2 = 0 THEN q ELSE q + 1

\* 3.14 * new_h * ((new_od ** 2 - new_id ** 2) / 4.0) * 0.78, rounded:
\* 314/100 * h/10 * (od^2 - id^2)/100 / 4 * 78/100 grams, times 100.
EstFormula(od, id, h) ==
    Round2(314 * h * (od * od - id * id) * 78, 100 * 10 * 4 * 100)

\* Mutant of EstValPreview: the guard forgets the inner diameter.
EstValPreviewNoInner(od, id, h) ==
    IF od > 0 /\ h > 0 THEN EstFormula(od, id, h) ELSE 0

EstValPreview(od, id, h) ==
    IF od > 0 /\ id > 0 /\ h > 0 THEN EstFormula(od, id, h) ELSE 0

\* The save handler's validation: st.error unless all three are > 0.
EstSaveAccepted(od, id, h) == ~(od <= 0 \/ id <= 0 \/ h <= 0)

\* est_val of the save handler, computed only past the validation.
EstValOnSave(od, id, h) == EstFormula(od, id, h)

\* Largest dimension entered, in 0.1 mm.
MaxDim == 12

EstInit ==
    /\ new_od \in 0..MaxDim
    /\ new_id \in 0..MaxDim
    /\ new_h \in 0..MaxDim
    /\ est_val_preview = 0
    /\ est_val = 0
    /\ est_pc = "input"

\* One run of the expander: the preview is computed on every run.
EstPreview ==
    /\ est_pc = "input"
    /\ est_val_preview' = EstValPreview(new_od, new_id, new_h)
    /\ est_pc' = "previewed"
    /\ UNCHANGED <<new_od, new_id, new_h, est_val>>

\* The save button with valid dimensions: the estimate is computed again
\* for the row to store.
EstSave ==
    /\ est_pc = "previewed"
    /\ EstSaveAccepted(new_od, new_id, new_h)
    /\ est_val' = EstValOnSave(new_od, new_id, new_h)
    /\ est_pc' = "saved"
    /\ UNCHANGED <<new_od, new_id, new_h, est_val_preview>>

\* The save button with a dimension <= 0: an error message, no estimate.
EstSaveRejected ==
    /\ est_pc = "previewed"
    /\ ~EstSaveAccepted(new_od, new_id, new_h)
    /\ est_pc' = "rejected"
    /\ UNCHANGED <<new_od, new_id, new_h, est_val_preview, est_val>>

EstIdle ==
    /\ new_od = 0
    /\ new_id = 0
    /\ new_h = 0
    /\ est_val_preview = 0
    /\ est_val = 0
    /\ est_pc = Idle

-----------------------------------------------------------------------------
(* Label tab: the quantity calculator.  A weight cell of the label table   *)
(* is a number in 0.01 g or missing (NaN): nan = TRUE and v = 0.           *)

\* safe_num on a numeric cell: 0 for a missing value, else the number.
safe_num_cell(x) == IF x.nan THEN 0 ELSE x.v

\* Mutant of core_weight_value: the estimate first.
core_weight_value_estimate_first(core_weight_db, est_core_db) ==
    IF est_core_db > 0 THEN est_core_db ELSE core_weight_db

\* The value= argument of the number_input "label_calc_core_weight".
core_weight_value(core_weight_db, est_core_db) ==
    IF core_weight_db > 0 THEN core_weight_db ELSE est_core_db

\* The branch that sets core_weight_default and core_source.
core_weight_default_of(core_weight_db, est_core_db) ==
    IF core_weight_db <= 0 /\ est_core_db > 0
    THEN [value |-> est_core_db, source |-> "estimate"]
    ELSE [value |-> core_weight_db, source |-> "measured"]

\* Largest weight stored in the label table, in 0.01 g.
MaxWeight == 5

WeightCells ==
    {[nan |-> TRUE, v |-> 0]} \cup {[nan |-> FALSE, v |-> x] : x \in -1..MaxWeight}

NoRow == [core |-> [nan |-> TRUE, v |-> 0], est |-> [nan |-> TRUE, v |-> 0]]

CalcInit ==
    /\ row_selected \in BOOLEAN
    /\ selected_row \in IF row_selected THEN [core : WeightCells, est : WeightCells]
                        ELSE {NoRow}
    /\ core_weight_default = 0
    /\ core_source = "none"
    /\ core_weight_input = 0
    /\ calc_pc = "input"

\* One run of the calculator with a label selected.  number_input has
\* min_value=0.0: a value below it raises.
CalcWithRow ==
    /\ calc_pc = "input"
    /\ row_selected
    /\ LET core_weight_db == safe_num_cell(selected_row.core)
           est_core_db == safe_num_cell(selected_row.est)
           offered == core_weight_value(core_weight_db, est_core_db)
       IN /\ core_weight_default' = core_weight_default_of(core_weight_db, est_core_db).value
          /\ core_source' = core_weight_default_of(core_weight_db, est_core_db).source
          /\ core_weight_input' = offered
          /\ calc_pc' = IF offered < 0 THEN "raised" ELSE "shown"
    /\ UNCHANGED <<selected_row, row_selected>>

\* One run with no label selected: both weights keep their initial 0.0.
CalcNoRow ==
    /\ calc_pc = "input"
    /\ ~row_selected
    /\ core_weight_input' = core_weight_value(0, 0)
    /\ calc_pc' = "shown"
    /\ UNCHANGED <<selected_row, row_selected, core_weight_default, core_source>>

CalcIdle ==
    /\ selected_row = NoRow
    /\ row_selected = FALSE
    /\ core_weight_default = 0
    /\ core_source = "none"
    /\ core_weight_input = 0
    /\ calc_pc = Idle

-----------------------------------------------------------------------------
(* Order search tab ("수주 찾기"): base part -> BOM parent codes -> sales    *)
(* orders, then the date windows.  Dates are days relative to today        *)
(* (today = 0); a row whose date to_datetime(errors="coerce") could not    *)
(* parse has nat = TRUE (NaT) and due = 0.  The tables are those whose     *)
(* columns pick_col resolves.                                              *)

\* date.today(), the origin of the day numbering
Today == 0

\* The part typed into "suju_find_part".
base_part == "P"

\* df_bom[df_bom[bom_component_col] == code][bom_item_col].dropna().unique()
ParentCodes(bom, codes) ==
    {r.item : r \in {x \in bom : x.comp \in codes /\ x.item # None}}

\* df_suju[df_suju[suju_part_col].isin(codes)]
SujuIsin(suju, codes) ==
    LET Test(r) == r.part \in codes IN SelectSeq(suju, Test)

item_codes(bom) == ParentCodes(bom, {base_part})

\* built only when the first-level codes match no sales order
fallback_item_codes(bom) == ParentCodes(bom, item_codes(bom))

third_item_codes(bom) == ParentCodes(bom, fallback_item_codes(bom))

\* Series.between(lo, hi): inclusive on both sides, False for NaT
Between(r, lo, hi) == ~r.nat /\ lo <= r.due /\ r.due <= hi

\* The five windows in the order the nested if/else reaches them:
\* one_month_after, one_year_after, back_3m, back_6m, back_12m.
WindowLo(i) ==
    CASE i = 1 -> Today
      [] i = 2 -> Today
      [] i = 3 -> Today - 90
      [] i = 4 -> Today - 180
      [] i = 5 -> Today - 365

WindowHi(i) ==
    CASE i = 1 -> Today + 30
      [] i = 2 -> Today + 365
      [] i = 3 -> Today
      [] i = 4 -> Today
      [] i = 5 -> Today

\* df_suju_hit[df_suju_hit[suju_due_col].between(lo, hi)]
InWindow(hit, i) ==
    LET Test(r) == Between(r, WindowLo(i), WindowHi(i))
    IN  SelectSeq(hit, Test)

RECURSIVE InsertDesc(_, _)
\* one step of the stable descending sort: r goes after the rows whose
\* date is not earlier, NaT rows last
InsertDesc(sorted, r) ==
    IF sorted = <<>> THEN <<r>>
    ELSE LET h == Head(sorted)
         IN  IF r.nat \/ (~h.nat /\ h.due >= r.due)
             THEN <<h>> \o InsertDesc(Tail(sorted), r)
             ELSE <<r>> \o sorted

RECURSIVE SortDueDesc(_)
\* sort_values(by=suju_due_col, ascending=False)
SortDueDesc(rows) ==
    IF rows = <<>> THEN <<>>
    ELSE InsertDesc(SortDueDesc(SubSeq(rows, 1, Len(rows) - 1)),
                    rows[Len(rows)])

\* The first window is shown unsorted, the others sorted by due date.
WindowRows(hit, i) ==
    IF i = 1 THEN InWindow(hit, i) ELSE SortDueDesc(InWindow(hit, i))

RECURSIVE WindowSearchFrom(_, _, _)
\* The nested if/else over the windows, from window i on; seen are the
\* windows already filtered.  Gives [evaluated, show].
WindowSearchFrom(hit, i, seen) ==
    LET rows == WindowRows(hit, i)
    IN  IF rows # <<>> THEN [evaluated |-> Append(seen, i), show |-> rows]
        ELSE IF i = 5 THEN [evaluated |-> Append(seen, i), show |-> <<>>]
        ELSE WindowSearchFrom(hit, i + 1, Append(seen, i))

RECURSIVE WidestWindowFrom(_, _, _)
\* Mutant of date_window_search: the windows are tried from the widest.
WidestWindowFrom(hit, i, seen) ==
    LET rows == WindowRows(hit, i)
    IN  IF rows # <<>> THEN [evaluated |-> Append(seen, i), show |-> rows]
        ELSE IF i = 1 THEN [evaluated |-> Append(seen, i), show |-> <<>>]
        ELSE WidestWindowFrom(hit, i - 1, Append(seen, i))

date_window_search_widest(hit) == WidestWindowFrom(hit, 5, <<>>)

\* lines 1788-1874: the date-window search over a non-empty df_suju_hit
date_window_search(hit) == WindowSearchFrom(hit, 1, <<>>)

\* df_suju_hit after the first- and second-level lookups
SujuHitOf(bom, suju) ==
    LET hit1 == SujuIsin(suju, item_codes(bom))
    IN  IF hit1 # <<>> THEN hit1
        ELSE IF fallback_item_codes(bom) # {}
        THEN SujuIsin(suju, fallback_item_codes(bom))
        ELSE <<>>

\* Whether the third-level branch is entered and finds sales orders.
ThirdLevelHit(bom, suju) ==
    /\ SujuHitOf(bom, suju) = <<>>
    /\ fallback_item_codes(bom) # {}
    /\ SujuIsin(suju, third_item_codes(bom)) # <<>>

\* Mutant of levels_searched: every level that has codes is looked up.
levels_searched_all(bom, suju) ==
    {1} \cup (IF fallback_item_codes(bom) # {} THEN {2} ELSE {})
        \cup (IF third_item_codes(bom) # {} THEN {3} ELSE {})

\* The BOM levels whose codes the sales orders are filtered by (isin) in
\* one run: the first always, the second when the first finds nothing
\* and second-level codes exist, the third when df_suju_hit is still
\* empty, second-level codes exist and the BOM has rows using them.
levels_searched(bom, suju) ==
    LET hit1 == SujuIsin(suju, item_codes(bom))
        second == hit1 = <<>> /\ fallback_item_codes(bom) # {}
        third == /\ SujuHitOf(bom, suju) = <<>>
                 /\ fallback_item_codes(bom) # {}
                 /\ {r \in bom : r.comp \in fallback_item_codes(bom)} # {}
    IN  {1} \cup (IF second THEN {2} ELSE {}) \cup (IF third THEN {3} ELSE {})

\* Rows of the BOM that use the base part.
df_bom_hit(bom) == {r \in bom : r.comp = base_part}

\* Most sales orders in the table.
MaxSuju == 2

\* The due dates of the rows: NaT, and the days on and just outside the
\* edges of the windows.
SujuDues ==
    {<<TRUE, 0>>} \cup
    {<<FALSE, d>> :
        d \in {0, 30, 31, 365, 366, -90, -91, -180, -181, -365, -366}}

SujuParts == {"A", "B", "C"}

\* The sales-order tables of 0..rows rows; suju, the order number, is
\* the row's position.
SujuTables(rows) ==
    UNION {{[i \in 1..n |-> [suju |-> i, part |-> pd[i][1],
                              nat |-> pd[i][2][1], due |-> pd[i][2][2]]] :
                pd \in [1..n -> SujuParts \X SujuDues]} : n \in 0..rows}

BomRow(item, comp) == [item |-> item, comp |-> comp]

\* BOM tables: no parent, one to three levels of parents, a parent row
\* with no item code, two second-level parents.
BomTables ==
    {{},
     {BomRow("A", "P")},
     {BomRow("A", "P"), BomRow("B", "A")},
     {BomRow("A", "P"), BomRow("B", "A"), BomRow("C", "B")},
     {BomRow(None, "P")},
     {BomRow("A", "P"), BomRow("B", "A"), BomRow("C", "A")}}

SearchInit ==
    /\ df_bom_raw \in BomTables
    /\ df_suju_raw \in SujuTables(MaxSuju)
    /\ sr_pc = "input"
    /\ sr_level = 0
    /\ sr_searched = {}
    /\ df_suju_hit = <<>>
    /\ used_bom2_flow = FALSE
    /\ sr_evaluated = <<>>
    /\ df_show = <<>>
    /\ df_suju_bom2 = <<>>

\* The run finds no BOM row using the part: st.info, nothing else runs.
SearchNoBom ==
    /\ sr_pc = "input"
    /\ df_bom_hit(df_bom_raw) = {}
    /\ sr_pc' = "done"
    /\ UNCHANGED <<df_bom_raw, df_suju_raw, sr_level, sr_searched, df_suju_hit,
                   used_bom2_flow, sr_evaluated, df_show, df_suju_bom2>>

\* The run ends in the third-level branch: the sales orders of the
\* third-level codes are shown sorted, and the date windows are skipped.
SearchThirdLevel ==
    /\ sr_pc = "input"
    /\ df_bom_hit(df_bom_raw) # {}
    /\ ThirdLevelHit(df_bom_raw, df_suju_raw)
    /\ sr_pc' = "done"
    /\ sr_level' = 3
    /\ sr_searched' = levels_searched(df_bom_raw, df_suju_raw)
    /\ df_suju_hit' = <<>>
    /\ used_bom2_flow' = TRUE
    /\ df_suju_bom2' =
          SortDueDesc(SujuIsin(df_suju_raw, third_item_codes(df_bom_raw)))
    /\ df_show' = <<>>
    /\ UNCHANGED <<df_bom_raw, df_suju_raw, sr_evaluated>>

\* The run finds no sales order at any level: st.warning, empty df_show.
SearchNoOrders ==
    /\ sr_pc = "input"
    /\ df_bom_hit(df_bom_raw) # {}
    /\ ~ThirdLevelHit(df_bom_raw, df_suju_raw)
    /\ SujuHitOf(df_bom_raw, df_suju_raw) = <<>>
    /\ sr_pc' = "done"
    /\ sr_searched' = levels_searched(df_bom_raw, df_suju_raw)
    /\ UNCHANGED <<df_bom_raw, df_suju_raw, sr_level, df_suju_hit,
                   used_bom2_flow, sr_evaluated, df_show, df_suju_bom2>>

\* The run finds sales orders at the first or second level and filters
\* them through the date windows.
SearchDateWindows ==
    /\ sr_pc = "input"
    /\ df_bom_hit(df_bom_raw) # {}
    /\ SujuHitOf(df_bom_raw, df_suju_raw) # <<>>
    /\ LET hit == SujuHitOf(df_bom_raw, df_suju_raw)
           found == date_window_search(hit)
       IN  /\ df_suju_hit' = hit
           /\ sr_level' =
                 IF SujuIsin(df_suju_raw, item_codes(df_bom_raw)) # <<>>
                 THEN 1 ELSE 2
           /\ sr_searched' = levels_searched(df_bom_raw, df_suju_raw)
           /\ sr_evaluated' = found.evaluated
           /\ df_show' = found.show
    /\ sr_pc' = "done"
    /\ UNCHANGED <<df_bom_raw, df_suju_raw, used_bom2_flow, df_suju_bom2>>

SearchIdle ==
    /\ df_bom_raw = {}
    /\ df_suju_raw = <<>>
    /\ sr_pc = Idle
    /\ sr_level = 0
    /\ sr_searched = {}
    /\ df_suju_hit = <<>>
    /\ used_bom2_flow = FALSE
    /\ sr_evaluated = <<>>
    /\ df_show = <<>>
    /\ df_suju_bom2 = <<>>

-----------------------------------------------------------------------------
(* Return tab ("환입"): the rollups of build_aggregates, the merge-based     *)
(* recalc_return_expectation and the "load return data" button.            *)
(*                                                                         *)
(* The ledger is ingested with dtype=str, so a quantity cell is text: a    *)
(* sequence of decimal digits.  The sheets are those whose columns         *)
(* pick_col resolves.  Only the key and quantity columns are kept; the     *)
(* descriptive columns of CSV_COLS (process, dates, names) are carried     *)
(* through by the code unchanged and are left out.                         *)

\* The cell a left merge leaves for a row without a partner.
NaN == <<>>

RECURSIVE DigitsValue(_)
\* float(str(x)) of a cell of digits
DigitsValue(cell) ==
    IF cell = <<>> THEN 0
    ELSE 10 * DigitsValue(SubSeq(cell, 1, Len(cell) - 1)) + cell[Len(cell)]

\* safe_num: 0 for NaN, float(text) for text
safe_num(x) == IF x = NaN THEN 0 ELSE DigitsValue(x)

RECURSIVE SumText(_)
\* groupby(...).sum() of a column of text: Python's +, the concatenation
SumText(cells) ==
    IF cells = <<>> THEN <<>> ELSE Head(cells) \o SumText(Tail(cells))

RECURSIVE SumNum(_)
\* groupby(...).sum() of a column of numbers
SumNum(nums) ==
    IF nums = <<>> THEN 0 ELSE Head(nums) + SumNum(Tail(nums))

\* The cells of one column, in row order.
ColumnOf(rows, col) == [i \in 1..Len(rows) |-> rows[i][col]]

\* df[col].apply(safe_num)
ColumnNum(rows, col) == [i \in 1..Len(rows) |-> safe_num(rows[i][col])]

RowsOf(rows) == {rows[i] : i \in 1..Len(rows)}

\* aggregates["in"]: receipts summed by [수주번호, 지시번호, 품번]
agg_in(df_in) ==
    {LET Test(r) == r.suju = k[1] /\ r.jisi = k[2] /\ r.part = k[3]
         grp == SelectSeq(df_in, Test)
     IN  [suju |-> k[1], jisi |-> k[2], part |-> k[3],
          erp_out |-> SumText(ColumnOf(grp, "erp_out")),
          real_in |-> SumText(ColumnOf(grp, "real_in"))] :
     k \in {<<r.suju, r.jisi, r.part>> : r \in RowsOf(df_in)}}

\* Mutant of agg_job: the work-order rows renamed but not grouped.
agg_job_ungrouped(df_job) ==
    {[jisi |-> r.jisi, jisi_qty |-> r.qty] : r \in RowsOf(df_job)}

\* aggregates["job"]: ordered quantity summed by 지시번호
agg_job(df_job) ==
    {LET Test(r) == r.jisi = j
     IN  [jisi |-> j,
          jisi_qty |-> SumText(ColumnOf(SelectSeq(df_job, Test), "qty"))] :
     j \in {r.jisi : r \in RowsOf(df_job)}}

\* aggregates["result"]: good / QC sample / other sample, passed through
\* safe_num and then summed by 지시번호; 수주번호 is the first of the group
agg_res(df_result) ==
    {LET Test(r) == r.jisi = j
         grp == SelectSeq(df_result, Test)
     IN  [jisi |-> j,
          suju |-> grp[1].suju,
          prod |-> SumNum(ColumnNum(grp, "prod")),
          qc |-> SumNum(ColumnNum(grp, "qc")),
          etc |-> SumNum(ColumnNum(grp, "etc"))] :
     j \in {r.jisi : r \in RowsOf(df_result)}}

\* A defect-type string is a sequence of characters; "W" stands for the
\* character 원 and "J" for 작.
PrefixWon == <<"(", "W", ")">>

PrefixJak == <<"(", "J", ")">>

\* str.startswith
StartsWith(text, prefix) ==
    Len(text) >= Len(prefix) /\ SubSeq(text, 1, Len(prefix)) = prefix

\* agg_orig / agg_proc: defect quantity of the rows whose type starts with
\* the prefix, summed by [지시번호, 품번]; NaN where the outer merge finds
\* no such row
DefectSum(df_defect, jisi, part, prefix) ==
    LET Test(r) == r.jisi = jisi /\ r.part = part /\ StartsWith(r.type, prefix)
        grp == SelectSeq(df_defect, Test)
    IN  IF grp = <<>> THEN NaN ELSE SumText(ColumnOf(grp, "qty"))

\* aggregates["defect"]: the outer merge of agg_orig and agg_proc
agg_def(df_defect) ==
    {[jisi |-> k[1], part |-> k[2],
      wonbul |-> DefectSum(df_defect, k[1], k[2], PrefixWon),
      jakbul |-> DefectSum(df_defect, k[1], k[2], PrefixJak)] :
     k \in {<<r.jisi, r.part>> :
               r \in {x \in RowsOf(df_defect) :
                         \/ StartsWith(x.type, PrefixWon)
                         \/ StartsWith(x.type, PrefixJak)}}}

WorkCenters == {"WC501", "WC502", "WC503", "WC504"}

\* aggregates["stock"]: 실재고수량 of the rows of the four workstations,
\* summed by 품번
agg_stock(df_stock) ==
    LET InWc(r) == r.wc \in WorkCenters
        kept == SelectSeq(df_stock, InWc)
    IN  {LET Test(r) == r.part = p
         IN  [part |-> p,
              erp_stock |-> SumText(ColumnOf(SelectSeq(kept, Test), "qty"))] :
         p \in {r.part : r \in RowsOf(kept)}}

\* Every sheet has the columns build_aggregates looks for.
AllResolved ==
    [in |-> TRUE, job |-> TRUE, defect |-> TRUE, stock |-> TRUE]

\* build_aggregates: a rollup whose columns do not all resolve is the
\* empty table with the fixed column names.  The production-result
\* rollup is always grouped by 지시번호: pick_col(df_result_raw, "A", ...)
\* resolves on every table that has a column.
build_aggregates(df_in, df_job, df_result, df_defect, df_stock) ==
    [built |-> TRUE,
     in |-> IF resolved.in THEN agg_in(df_in) ELSE {},
     job |-> IF resolved.job THEN agg_job(df_job) ELSE {},
     result |-> agg_res(df_result),
     defect |-> IF resolved.defect THEN agg_def(df_defect) ELSE {},
     stock |-> IF resolved.stock THEN agg_stock(df_stock) ELSE {}]

\* session_state["aggregates"] = None
NoAggregates ==
    [built |-> FALSE, in |-> {}, job |-> {}, result |-> {}, defect |-> {},
     stock |-> {}]

\* The cell a left merge puts in a row: the cell of the one rollup row
\* with the row's key, NaN when there is none.
MergeCell(matches, col) ==
    IF matches = {} THEN NaN ELSE (CHOOSE a \in matches : TRUE)[col]

\* The same for a column of numbers, after safe_num (NaN becomes 0).
MergeNum(matches, col) ==
    IF matches = {} THEN 0 ELSE (CHOOSE a \in matches : TRUE)[col]

RECURSIVE DropDuplicatesLast(_)
\* drop_duplicates(subset=["수주번호", "지시번호", "품번"], keep="last")
DropDuplicatesLast(rows) ==
    IF rows = <<>> THEN <<>>
    ELSE LET h == Head(rows)
             later == {Tail(rows)[i] : i \in 1..(Len(rows) - 1)}
         IN  IF \E r \in later :
                    r.suju = h.suju /\ r.jisi = h.jisi /\ r.part = h.part
             THEN DropDuplicatesLast(Tail(rows))
             ELSE <<h>> \o DropDuplicatesLast(Tail(rows))

\* Mutant of ExpectedStock: the formula as the docstring of
\* recalc_return_expectation gives it, without the material fault.
ExpectedStockDocstring(real_in, prod, qc, etc, unit, wonbul, jakbul) ==
    real_in - (prod + qc + etc) * unit - jakbul

\* df["예상재고"], lines 901-906
ExpectedStock(real_in, prod, qc, etc, unit, wonbul, jakbul) ==
    real_in - (prod + qc + etc) * unit - wonbul - jakbul

\* One row of the table after the five left merges, safe_num over
\* num_cols and the formula.
RecalcRow(row, aggs) ==
    LET in_m == {a \in aggs.in : /\ a.suju = row.suju
                                 /\ a.jisi = row.jisi
                                 /\ a.part = row.part}
        job_m == {a \in aggs.job : a.jisi = row.jisi}
        res_m == {a \in aggs.result : a.jisi = row.jisi}
        def_m == {a \in aggs.defect : a.jisi = row.jisi /\ a.part = row.part}
        stock_m == {a \in aggs.stock : a.part = row.part}
        real_in == safe_num(MergeCell(in_m, "real_in"))
        prod == MergeNum(res_m, "prod")
        qc == MergeNum(res_m, "qc")
        etc == MergeNum(res_m, "etc")
        unit == safe_num(row.unit)
        wonbul == safe_num(MergeCell(def_m, "wonbul"))
        jakbul == safe_num(MergeCell(def_m, "jakbul"))
    IN  [suju |-> row.suju, jisi |-> row.jisi, part |-> row.part,
         erp_out |-> safe_num(MergeCell(in_m, "erp_out")),
         real_in |-> real_in,
         jisi_qty |-> safe_num(MergeCell(job_m, "jisi_qty")),
         prod |-> prod, qc |-> qc, etc |-> etc, unit |-> unit,
         wonbul |-> wonbul, jakbul |-> jakbul,
         expect |-> ExpectedStock(real_in, prod, qc, etc, unit, wonbul,
                                  jakbul),
         erp_stock |-> safe_num(MergeCell(stock_m, "erp_stock"))]

\* recalc_return_expectation.  With an empty result rollup the merge on
\* 수주번호 (line 859) splits 지시번호 into 지시번호_x / 지시번호_y and the
\* defect merge (line 866) raises KeyError: ok is FALSE.
recalc_return_expectation(df_return, aggs) ==
    IF df_return = <<>> THEN [ok |-> TRUE, rows |-> <<>>]
    ELSE IF aggs.result = {} THEN [ok |-> FALSE, rows |-> <<>>]
    ELSE LET df == DropDuplicatesLast(df_return)
         IN  [ok |-> TRUE,
              rows |-> [i \in 1..Len(df) |-> RecalcRow(df[i], aggs)]]

\* stock_map.get(part): dict(zip(품번, 실재고수량.apply(safe_num))) keeps
\* the last inventory row of a part, whatever its workstation; fillna(0)
\* where the part has no row.
stock_map_get(df_stock, part) ==
    LET at == {i \in 1..Len(df_stock) : df_stock[i].part = part}
    IN  IF at = {} THEN 0
        ELSE safe_num(df_stock[CHOOSE i \in at : \A j \in at : j <= i].qty)

\* "ERP재고 매칭", lines 2429-2446: the ERP재고 column of df_full is
\* overwritten from stock_map.
erp_stock_matching(df_full, df_stock) ==
    [i \in 1..Len(df_full) |->
        [df_full[i] EXCEPT !.erp_stock = stock_map_get(df_stock, df_full[i].part)]]

\* col_defaults, lines 2479-2495: the display part of the run adds the
\* columns 추가수주 (the order numbers the text lists, none at first) and
\* 공통부자재 (unticked) to the table of the session.
col_defaults(df_full) ==
    [i \in 1..Len(df_full) |->
        [k \in DOMAIN df_full[i] \cup {"extra", "common"} |->
            IF k \in DOMAIN df_full[i] THEN df_full[i][k]
            ELSE IF k = "extra" THEN <<>> ELSE FALSE]]

\* Most rows of the receipts, work-order and production-result tables.
MaxRows == 1

\* Most rows of the defect table.
MaxDefectRows == 2

\* Most rows of the inventory table.
MaxStockRows == 2

TablesOf(rowset, n) == UNION {[1..k -> rowset] : k \in 0..n}

InRowChoices ==
    {[suju |-> "S1", jisi |-> "J1", part |-> "P1",
      erp_out |-> <<9>>, real_in |-> <<1, 0, 0>>],
     [suju |-> "S1", jisi |-> "J1", part |-> "P1",
      erp_out |-> <<5>>, real_in |-> <<4>>]}

JobRowChoices == {[jisi |-> "J1", qty |-> <<2, 0>>]}

ResultRowChoices ==
    {[jisi |-> "J1", suju |-> "S1", prod |-> <<1, 0>>, qc |-> <<2>>,
      etc |-> <<1>>]}

DefectRowChoices ==
    {[jisi |-> "J1", part |-> "P1", qty |-> <<3>>,
      type |-> PrefixWon \o <<"a">>],
     [jisi |-> "J1", part |-> "P1", qty |-> <<2>>,
      type |-> PrefixJak \o <<"b">>]}

StockRowChoices ==
    {[wc |-> "WC501", part |-> "P1", qty |-> <<5>>],
     [wc |-> "WC999", part |-> "P1", qty |-> <<7>>]}

\* The values of suju_no and selected_jisi when the button is pressed.
SujuInputs == {"", "S1"}

JisiInputs == {"", "J1"}

\* The rows ticked in the BOM component editor: none, one part, and two
\* parts of which one is listed twice.
SelectedRowsInputs ==
    {<<>>,
     <<[part |-> "P1", unit |-> <<5>>]>>,
     <<[part |-> "P1", unit |-> <<1>>], [part |-> "P2", unit |-> <<2>>],
       [part |-> "P1", unit |-> <<3>>]>>}

\* The inputs of one press of the button.
LoadInputs == SujuInputs \X JisiInputs \X SelectedRowsInputs

\* The button has not been pressed.
NoLoadInput == <<"", "", <<>>>>

\* The receipt period of st.date_input before the user changes it.
DefaultDateRange == <<Today - 30, Today>>

\* Mutant of LoadRefused: only the order number is looked at.
LoadRefusedOrderOnly(inp) == inp[1] = ""

\* Lines 2363-2374: the press is refused with a message.
LoadRefused(inp) == inp[1] = "" \/ inp[2] = "" \/ inp[3] = <<>>

\* Mutant of NewRows: the rows are added to the table of the session.
NewRowsAppended(suju_no, selected_jisi, selected_rows) ==
    return_mgmt \o
    [i \in 1..Len(selected_rows) |->
        [suju |-> suju_no, jisi |-> selected_jisi,
         part |-> selected_rows[i].part, unit |-> selected_rows[i].unit]]

\* new_rows, lines 2376-2405
NewRows(suju_no, selected_jisi, selected_rows) ==
    [i \in 1..Len(selected_rows) |->
        [suju |-> suju_no, jisi |-> selected_jisi,
         part |-> selected_rows[i].part, unit |-> selected_rows[i].unit]]

ReturnInit ==
    /\ df_in_raw \in TablesOf(InRowChoices, MaxRows)
    /\ df_job_raw \in TablesOf(JobRowChoices, MaxRows)
    /\ df_result_raw \in TablesOf(ResultRowChoices, MaxRows)
    /\ df_defect_raw \in TablesOf(DefectRowChoices, MaxDefectRows)
    /\ df_stock_raw \in TablesOf(StockRowChoices, MaxStockRows)
    /\ resolved = AllResolved
    /\ aggregates = NoAggregates
    /\ return_mgmt = <<>>
    /\ return_expect = <<>>
    /\ rt_pc = "ready"
    /\ load_inp = NoLoadInput
    /\ df_edit = <<>>
    /\ date_range = DefaultDateRange

\* The aggregates the run uses: built on the first use of the session.
AggregatesForRun ==
    IF aggregates.built THEN aggregates
    ELSE build_aggregates(df_in_raw, df_job_raw, df_result_raw,
                          df_defect_raw, df_stock_raw)

\* "load return data" pressed with an input missing: a message, no change.
LoadReturnRejected ==
    /\ rt_pc # Idle
    /\ {inp \in LoadInputs : LoadRefused(inp)} # {}
    /\ rt_pc' = "rejected"
    /\ UNCHANGED <<df_in_raw, df_job_raw, df_result_raw, df_defect_raw,
                   df_stock_raw, resolved, aggregates, return_mgmt,
                   return_expect, load_inp, df_edit, date_range>>

\* "load return data" runs to the success message; the table is then
\* displayed.
LoadReturnData ==
    /\ rt_pc # Idle
    /\ \E inp \in {x \in LoadInputs : ~LoadRefused(x)} :
             LET df_return == NewRows(inp[1], inp[2], inp[3])
                 aggs == AggregatesForRun
                 df_full == recalc_return_expectation(df_return, aggs)
             IN  /\ df_full.ok
                 /\ load_inp' = inp
                 /\ return_mgmt' = df_return
                 /\ aggregates' = aggs
                 /\ return_expect' =
                       col_defaults(erp_stock_matching(df_full.rows,
                                                       df_stock_raw))
    /\ df_edit' = <<>>
    /\ date_range' = DefaultDateRange
    /\ rt_pc' = "loaded"
    /\ UNCHANGED <<df_in_raw, df_job_raw, df_result_raw, df_defect_raw,
                   df_stock_raw, resolved>>

\* "load return data" is cut short by the KeyError of
\* recalc_return_expectation: 환입관리 and the aggregates are already
\* stored, 환입재고예상 is not.
LoadReturnRaises ==
    /\ rt_pc # Idle
    /\ \E inp \in {x \in LoadInputs : ~LoadRefused(x)} :
             LET df_return == NewRows(inp[1], inp[2], inp[3])
                 aggs == AggregatesForRun
             IN  /\ ~recalc_return_expectation(df_return, aggs).ok
                 /\ load_inp' = inp
                 /\ return_mgmt' = df_return
                 /\ aggregates' = aggs
    /\ rt_pc' = "raised"
    /\ UNCHANGED <<df_in_raw, df_job_raw, df_result_raw, df_defect_raw,
                   df_stock_raw, resolved, return_expect, df_edit,
                   date_range>>

\* "clear" pressed, lines 2457-2465
ClearReturn ==
    /\ rt_pc # Idle
    /\ return_mgmt' = <<>>
    /\ return_expect' = <<>>
    /\ load_inp' = NoLoadInput
    /\ df_edit' = <<>>
    /\ date_range' = DefaultDateRange
    /\ rt_pc' = "cleared"
    /\ UNCHANGED <<df_in_raw, df_job_raw, df_result_raw, df_defect_raw,
                   df_stock_raw, resolved, aggregates>>

ReturnIdle ==
    /\ df_in_raw = <<>>
    /\ df_job_raw = <<>>
    /\ df_result_raw = <<>>
    /\ df_defect_raw = <<>>
    /\ df_stock_raw = <<>>
    /\ resolved = AllResolved
    /\ aggregates = NoAggregates
    /\ return_mgmt = <<>>
    /\ return_expect = <<>>
    /\ rt_pc = Idle
    /\ load_inp = NoLoadInput
    /\ df_edit = <<>>
    /\ date_range = DefaultDateRange

-----------------------------------------------------------------------------
(* Return tab: the editor form under the reconciliation table, with the    *)
(* buttons "save common-material flags / extra orders" and "fill in the    *)
(* extra orders from the receipt period".  The text of 추가수주 is modelled *)
(* by the sequence of the order numbers it lists, separated by ", "; a     *)
(* receipt row carries its request date req (요청날짜) in days relative to  *)
(* today.                                                                  *)

\* The order numbers a text lists.
IdsOf(text) == {text[k] : k \in 1..Len(text)}

RECURSIVE UniqueInOrder(_)
\* Series.unique(): the first occurrences, in order of appearance
UniqueInOrder(ids) ==
    IF ids = <<>> THEN <<>>
    ELSE LET before == UniqueInOrder(SubSeq(ids, 1, Len(ids) - 1))
             last == ids[Len(ids)]
         IN  IF last \in IdsOf(before) THEN before ELSE Append(before, last)

\* get_extra_orders_by_period: the order numbers of the receipt rows of
\* the part requested within the period, in the order of the sheet, the
\* base order left out.
get_extra_orders_by_period(part_code, base_suju, start_date, end_date) ==
    LET InPeriod(x) == /\ x.part = part_code
                       /\ x.req >= start_date
                       /\ x.req <= end_date
        sub == SelectSeq(df_in_raw, InPeriod)
        suju_list == UniqueInOrder([k \in 1..Len(sub) |-> sub[k].suju])
        NotBase(id) == id # base_suju
    IN  SelectSeq(suju_list, NotBase)

\* The order numbers of the model, in the order Python sorts their text.
SujuOrder == <<"S1", "S2", "S3">>

RankOf(id) == CHOOSE k \in 1..Len(SujuOrder) : SujuOrder[k] = id

RECURSIVE SortedIds(_)
\* sorted(set(...))
SortedIds(ids) ==
    IF ids = {} THEN <<>>
    ELSE LET least == CHOOSE a \in ids : \A b \in ids : RankOf(a) <= RankOf(b)
         IN  <<least>> \o SortedIds(ids \ {least})

\* Lines 2622-2632: nothing found leaves the text; a text already there is
\* replaced by the sorted union; an empty one by the text found.
merge_extra(current, extra) ==
    IF extra = <<>> THEN current
    ELSE IF current # <<>> THEN SortedIds(IdsOf(current) \cup IdsOf(extra))
    ELSE extra

RECURSIVE SumCells(_, _)
\* tmp[col].apply(safe_num).sum() over rollup rows holding text
SumCells(rows, col) ==
    IF rows = {} THEN 0
    ELSE LET a == CHOOSE x \in rows : TRUE
         IN  safe_num(a[col]) + SumCells(rows \ {a}, col)

RECURSIVE SumNumCells(_, _)
\* the same over rollup rows holding numbers
SumNumCells(rows, col) ==
    IF rows = {} THEN 0
    ELSE LET a == CHOOSE x \in rows : TRUE
         IN  a[col] + SumNumCells(rows \ {a}, col)

\* Mutant of recompute_row_with_extra_orders: the quantities are
\* replaced, the expected stock is left as it was.
recompute_row_keeps_expect(row, aggs) ==
    LET suju_list == {row.suju} \cup IdsOf(row.extra)
        tmp_in == {a \in aggs.in : a.part = row.part /\ a.suju \in suju_list}
        tmp_res == {a \in aggs.result : a.suju \in suju_list}
    IN  [row EXCEPT
            !.erp_out = IF tmp_in # {} THEN SumCells(tmp_in, "erp_out") ELSE 0,
            !.real_in = IF tmp_in # {} THEN SumCells(tmp_in, "real_in") ELSE @,
            !.prod = IF tmp_res # {} THEN SumNumCells(tmp_res, "prod") ELSE @,
            !.qc = IF tmp_res # {} THEN SumNumCells(tmp_res, "qc") ELSE @,
            !.etc = IF tmp_res # {} THEN SumNumCells(tmp_res, "etc") ELSE @]

\* recompute_row_with_extra_orders, lines 2642-2713: receipts summed over
\* the rollup rows of the part under the base and the extra orders,
\* production results over the rollup rows of those orders, the expected
\* stock from the new sums and the row's own unit quantity and faults.
recompute_row_with_extra_orders(row, aggs) ==
    IF row.part = "" \/ row.suju = "" THEN row
    ELSE LET suju_list == {row.suju} \cup IdsOf(row.extra)
             tmp_in == {a \in aggs.in :
                           a.part = row.part /\ a.suju \in suju_list}
             tmp_res == {a \in aggs.result : a.suju \in suju_list}
             erp_out == IF tmp_in # {} THEN SumCells(tmp_in, "erp_out") ELSE 0
             real_in == IF tmp_in # {} THEN SumCells(tmp_in, "real_in")
                        ELSE row.real_in
             prod == IF tmp_res # {} THEN SumNumCells(tmp_res, "prod")
                     ELSE row.prod
             qc == IF tmp_res # {} THEN SumNumCells(tmp_res, "qc") ELSE row.qc
             etc == IF tmp_res # {} THEN SumNumCells(tmp_res, "etc")
                    ELSE row.etc
         IN  [row EXCEPT
                 !.erp_out = erp_out, !.real_in = real_in, !.prod = prod,
                 !.qc = qc, !.etc = etc,
                 !.expect = ExpectedStock(real_in, prod, qc, etc, row.unit,
                                          row.wonbul, row.jakbul)]

\* Lines 2587-2594: the two editor columns are copied into the table.
apply_editor(df_full, edit) ==
    [i \in 1..Len(df_full) |->
        [df_full[i] EXCEPT !.common = edit[i][1], !.extra = edit[i][2]]]

\* Mutant of fill_extra_orders: the rows are filled whether ticked or not.
fill_extra_orders_all_rows(df_full, start_date, end_date) ==
    [i \in 1..Len(df_full) |->
        [df_full[i] EXCEPT !.extra =
            merge_extra(@, get_extra_orders_by_period(df_full[i].part,
                                                      df_full[i].suju,
                                                      start_date, end_date))]]

\* Lines 2607-2634: the extra orders of a ticked row are merged with the
\* ones found for the period.
fill_extra_orders(df_full, start_date, end_date) ==
    [i \in 1..Len(df_full) |->
        IF df_full[i].common
        THEN [df_full[i] EXCEPT !.extra =
                 merge_extra(@, get_extra_orders_by_period(df_full[i].part,
                                                           df_full[i].suju,
                                                           start_date,
                                                           end_date))]
        ELSE df_full[i]]

\* Lines 2636-2717: the ticked rows are recomputed, if the session has
\* aggregates.
recompute_ticked(df_full, aggs) ==
    [i \in 1..Len(df_full) |->
        IF df_full[i].common /\ aggs.built
        THEN recompute_row_with_extra_orders(df_full[i], aggs)
        ELSE df_full[i]]

\* The auto-fill handler on the table of the session, lines 2587-2717.
auto_fill(df_full, edit, range, aggs) ==
    recompute_ticked(
        fill_extra_orders(apply_editor(df_full, edit), range[1], range[2]),
        aggs)

\* What the user can leave in the editor: per row a tick and the extra
\* orders typed.
EditorInputs(n) == [1..n -> BOOLEAN \X {<<>>, <<"S2">>}]

\* The editor with nothing typed since the run drew it: the two columns of
\* the session's table (df_visible, lines 2541-2550).
EditorShowing(df_full) ==
    [i \in 1..Len(df_full) |-> <<df_full[i].common, df_full[i].extra>>]

\* The receipt periods chosen in the date_input: the default last 30 days
\* and the last 60 days.
DateRanges == {DefaultDateRange, <<Today - 60, Today>>}

EditInTables ==
    {<<[suju |-> "S1", jisi |-> "J1", part |-> "P1", erp_out |-> <<9>>,
        real_in |-> <<1, 0, 0>>, req |-> 0]>>,
     <<[suju |-> "S1", jisi |-> "J1", part |-> "P1", erp_out |-> <<9>>,
        real_in |-> <<1, 0, 0>>, req |-> 0],
       [suju |-> "S2", jisi |-> "J2", part |-> "P1", erp_out |-> <<5>>,
        real_in |-> <<4>>, req |-> -5]>>,
     <<[suju |-> "S1", jisi |-> "J1", part |-> "P1", erp_out |-> <<9>>,
        real_in |-> <<1, 0, 0>>, req |-> 0],
       [suju |-> "S3", jisi |-> "J3", part |-> "P1", erp_out |-> <<2>>,
        real_in |-> <<6>>, req |-> -40]>>,
     <<[suju |-> "S1", jisi |-> "J1", part |-> "P1", erp_out |-> <<9>>,
        real_in |-> <<1, 0, 0>>, req |-> 0],
       [suju |-> "S3", jisi |-> "J3", part |-> "P1", erp_out |-> <<2>>,
        real_in |-> <<6>>, req |-> -3],
       [suju |-> "S2", jisi |-> "J2", part |-> "P1", erp_out |-> <<5>>,
        real_in |-> <<4>>, req |-> -5]>>}

EditResultTables ==
    {<<>>,
     <<[jisi |-> "J1", suju |-> "S1", prod |-> <<1, 0>>, qc |-> <<2>>,
        etc |-> <<1>>],
       [jisi |-> "J2", suju |-> "S2", prod |-> <<3>>, qc |-> <<1>>,
        etc |-> <<0>>]>>}

ReturnEditInit ==
    /\ df_in_raw \in EditInTables
    /\ df_job_raw = <<[jisi |-> "J1", qty |-> <<2, 0>>]>>
    /\ df_result_raw \in EditResultTables
    /\ df_defect_raw =
          <<[jisi |-> "J1", part |-> "P1", qty |-> <<3>>,
             type |-> PrefixWon \o <<"a">>],
            [jisi |-> "J1", part |-> "P1", qty |-> <<2>>,
             type |-> PrefixJak \o <<"b">>]>>
    /\ df_stock_raw = <<[wc |-> "WC501", part |-> "P1", qty |-> <<5>>]>>
    /\ resolved = AllResolved
    /\ aggregates = NoAggregates
    /\ return_mgmt = <<>>
    /\ return_expect = <<>>
    /\ rt_pc = "ready"
    /\ load_inp = NoLoadInput
    /\ df_edit = <<>>
    /\ date_range = DefaultDateRange

\* The form is submitted with the save button: the two columns are stored.
SaveFlags ==
    /\ rt_pc # Idle
    /\ return_expect # <<>>
    /\ \E edit \in EditorInputs(Len(return_expect))
                     \cup {EditorShowing(return_expect)} :
          /\ df_edit' = edit
          /\ return_expect' = apply_editor(return_expect, edit)
    /\ rt_pc' = "saved"
    /\ UNCHANGED <<df_in_raw, df_job_raw, df_result_raw, df_defect_raw,
                   df_stock_raw, resolved, aggregates, return_mgmt, load_inp,
                   date_range>>

\* The form is submitted with the auto-fill button: the columns are
\* stored, the extra orders filled in, the ticked rows recomputed, and the
\* script is run again.
AutoFillExtraOrders ==
    /\ rt_pc # Idle
    /\ return_expect # <<>>
    /\ \E edit \in EditorInputs(Len(return_expect))
                     \cup {EditorShowing(return_expect)},
          range \in DateRanges :
          /\ df_edit' = edit
          /\ date_range' = range
          /\ return_expect' = auto_fill(return_expect, edit, range, aggregates)
    /\ rt_pc' = "autofilled"
    /\ UNCHANGED <<df_in_raw, df_job_raw, df_result_raw, df_defect_raw,
                   df_stock_raw, resolved, aggregates, return_mgmt, load_inp>>

-----------------------------------------------------------------------------
(* Return tab after a new ledger: the session uploads a workbook (upload   *)
(* tab, lines 1319-1349, which clears the memoized loads) and its next run *)
(* reads the seven tables from the new snapshot (lines 1381-1388).         *)
(* session_state["aggregates"] is set to None only when the key is absent  *)
(* (lines 1390-1392), so the aggregates of the session stay as they are.   *)

LedgerReloaded ==
    /\ rt_pc # Idle
    /\ df_in_raw' \in EditInTables
    /\ df_result_raw' \in EditResultTables
    /\ <<df_in_raw', df_result_raw'>> # <<df_in_raw, df_result_raw>>
    /\ rt_pc' = "reloaded"
    /\ UNCHANGED <<df_job_raw, df_defect_raw, df_stock_raw, resolved,
                   aggregates, return_mgmt, return_expect, load_inp, df_edit,
                   date_range>>

-----------------------------------------------------------------------------
(* Return tab: the barcode labels.  df_labels is the part of df_full whose *)
(* 품번 is one of the ticked rows' (lines 3002-3024); it keeps the index of *)
(* df_full, which is 0, 1, ... since reset_index (line 2477).  The story   *)
(* of generate_label_pdf is modelled by "label" for the flowables of one   *)
(* label and "PageBreak" for a PageBreak().                                *)

\* Most rows of the reconciliation table the labels are picked from.
MaxLabelRows == 3

\* selected_parts, lines 3002-3006
selected_parts(df_full) ==
    {df_full[i].part : i \in {j \in 1..Len(df_full) : df_full[j].sel}}

RECURSIVE LabelRowsFrom(_, _, _)
\* df_full[df_full["품번"].isin(selected_parts)]: the rows kept, each with
\* its index label idx
LabelRowsFrom(df_full, parts, i) ==
    IF i > Len(df_full) THEN <<>>
    ELSE (IF df_full[i].part \in parts
          THEN <<[idx |-> i - 1, part |-> df_full[i].part]>> ELSE <<>>)
         \o LabelRowsFrom(df_full, parts, i + 1)

df_labels_of(df_full) == LabelRowsFrom(df_full, selected_parts(df_full), 1)

RECURSIVE StoryFrom(_, _)
\* for idx, row in df_labels.iterrows(): ... if idx != len(df_labels) - 1:
\* story.append(PageBreak())
StoryFrom(df_labels, k) ==
    IF k > Len(df_labels) THEN <<>>
    ELSE <<"label">>
         \o (IF df_labels[k].idx # Len(df_labels) - 1
             THEN <<"PageBreak">> ELSE <<>>)
         \o StoryFrom(df_labels, k + 1)

generate_label_pdf(df_labels) == StoryFrom(df_labels, 1)

LabelParts == {"P1", "P2"}

PdfInit ==
    /\ lbl_full \in UNION {[1..n -> [part : LabelParts, sel : BOOLEAN]] :
                             n \in 0..MaxLabelRows}
    /\ story = <<>>
    /\ pdf_pc = "ready"

\* The run with the request number and the unit quantity entered and a row
\* ticked: the PDF is built.
MakeLabels ==
    /\ pdf_pc = "ready"
    /\ selected_parts(lbl_full) # {}
    /\ story' = generate_label_pdf(df_labels_of(lbl_full))
    /\ pdf_pc' = "made"
    /\ UNCHANGED lbl_full

\* The run with no row ticked: the caption, the button stays disabled.
MakeLabelsNothingSelected ==
    /\ pdf_pc = "ready"
    /\ selected_parts(lbl_full) = {}
    /\ pdf_pc' = "disabled"
    /\ UNCHANGED <<lbl_full, story>>

PdfIdle ==
    /\ lbl_full = <<>>
    /\ story = <<>>
    /\ pdf_pc = Idle

-----------------------------------------------------------------------------
(* Common-material tab, lines 3052-3140.  A receipt row carries the item   *)
(* (완성품번) and its request date: nat for a date to_datetime cannot read, *)
(* req in days relative to today.                                          *)

\* Most rows of the receipts table.
MaxCommonRows == 2

\* Mutant of marks_of: the first mark only below seven days.
marks_of_strict(days_diff) ==
    [w1 |-> IF days_diff < 7 THEN "V" ELSE "",
     w2 |-> IF days_diff >= 7 /\ days_diff <= 14 THEN "V" ELSE ""]

\* mark_1w, mark_2w: lines 3110-3118
marks_of(days_diff) ==
    [w1 |-> IF days_diff <= 7 THEN "V" ELSE "",
     w2 |-> IF days_diff <= 7 THEN ""
            ELSE IF days_diff <= 14 THEN "V" ELSE ""]

\* One row of result_rows, lines 3096-3128: sub is the dated receipts of
\* the item, last_date the latest of them.
result_row(item_code, df_in) ==
    LET sub == {df_in[i].req :
                   i \in {j \in 1..Len(df_in) :
                             df_in[j].item = item_code /\ ~df_in[j].nat}}
    IN  IF sub = {}
        THEN [item |-> item_code, dated |-> FALSE, days_diff |-> 0,
              mark_1w |-> "", mark_2w |-> ""]
        ELSE LET last_date == CHOOSE d \in sub : \A e \in sub : e <= d
                 days_diff == Today - last_date
             IN  [item |-> item_code, dated |-> TRUE,
                  days_diff |-> days_diff,
                  mark_1w |-> marks_of(days_diff).w1,
                  mark_2w |-> marks_of(days_diff).w2]

CommonItems == {"A", "B"}

\* Request dates: unreadable, tomorrow, today, and both sides of the
\* one-week and two-week limits.
CommonDates ==
    {[nat |-> TRUE, req |-> 0]} \cup
    {[nat |-> FALSE, req |-> d] : d \in {1, 0, -7, -8, -14, -15}}

CommonInRows ==
    {[item |-> i, nat |-> d.nat, req |-> d.req] :
        i \in CommonItems, d \in CommonDates}

CommonInit ==
    /\ cm_in \in UNION {[1..n -> CommonInRows] : n \in 0..MaxCommonRows}
    /\ cm_bom_hit \in {{}, {"A"}, {"A", "B"}}
    /\ cm_result = {}
    /\ cm_pc = "ready"

\* The search finds items whose BOM uses the part: one result row each.
CommonSearch ==
    /\ cm_pc = "ready"
    /\ cm_bom_hit # {}
    /\ cm_result' = {result_row(item_code, cm_in) : item_code \in cm_bom_hit}
    /\ cm_pc' = "shown"
    /\ UNCHANGED <<cm_in, cm_bom_hit>>

\* No item uses the part: st.info.
CommonSearchNoItem ==
    /\ cm_pc = "ready"
    /\ cm_bom_hit = {}
    /\ cm_pc' = "no item"
    /\ UNCHANGED <<cm_in, cm_bom_hit, cm_result>>

CommonIdle ==
    /\ cm_in = <<>>
    /\ cm_bom_hit = {}
    /\ cm_result = {}
    /\ cm_pc = Idle

-----------------------------------------------------------------------------
(* build_aggregates and recalc_return_expectation called on ledgers in     *)
(* which one sheet at a time holds several rows and on return tables with  *)
(* a repeated key and a key no rollup knows.                               *)

\* Most rows of the sheet that varies.
MaxAggRows == 2

AggInRows ==
    {[suju |-> "S1", jisi |-> "J1", part |-> "P1",
      erp_out |-> <<9>>, real_in |-> <<3>>],
     [suju |-> "S1", jisi |-> "J1", part |-> "P1",
      erp_out |-> <<5>>, real_in |-> <<4>>],
     [suju |-> "S1", jisi |-> "J1", part |-> "P2",
      erp_out |-> <<1>>, real_in |-> <<6>>]}

AggJobRows ==
    {[jisi |-> "J1", qty |-> <<2, 0>>],
     [jisi |-> "J1", qty |-> <<5>>],
     [jisi |-> "J2", qty |-> <<1>>]}

\* Types "(원)a", "(작)b", "x(원)" and "(원)" of another part.
AggDefectRows ==
    {[jisi |-> "J1", part |-> "P1", qty |-> <<3>>,
      type |-> PrefixWon \o <<"a">>],
     [jisi |-> "J1", part |-> "P1", qty |-> <<2>>,
      type |-> PrefixJak \o <<"b">>],
     [jisi |-> "J1", part |-> "P1", qty |-> <<4>>,
      type |-> <<"x">> \o PrefixWon],
     [jisi |-> "J1", part |-> "P2", qty |-> <<1>>, type |-> PrefixWon]}

AggStockRows ==
    {[wc |-> "WC501", part |-> "P1", qty |-> <<5>>],
     [wc |-> "WC502", part |-> "P1", qty |-> <<2>>],
     [wc |-> "WC999", part |-> "P1", qty |-> <<7>>]}

\* The ledger whose sheets hold one row each, and no defect.
BaseLedger ==
    [in |-> <<[suju |-> "S1", jisi |-> "J1", part |-> "P1",
               erp_out |-> <<9>>, real_in |-> <<3>>]>>,
     job |-> <<[jisi |-> "J1", qty |-> <<2, 0>>]>>,
     result |-> <<[jisi |-> "J1", suju |-> "S1", prod |-> <<1, 0>>,
                   qc |-> <<2>>, etc |-> <<1>>]>>,
     defect |-> <<>>,
     stock |-> <<[wc |-> "WC501", part |-> "P1", qty |-> <<5>>]>>]

AggLedgers ==
    {[BaseLedger EXCEPT !.in = t] : t \in TablesOf(AggInRows, MaxAggRows)}
    \cup {[BaseLedger EXCEPT !.job = t] : t \in TablesOf(AggJobRows, MaxAggRows)}
    \cup {[BaseLedger EXCEPT !.defect = t] :
             t \in TablesOf(AggDefectRows, MaxAggRows)}
    \cup {[BaseLedger EXCEPT !.stock = t] :
             t \in TablesOf(AggStockRows, MaxAggRows)}
    \cup {[BaseLedger EXCEPT !.result = <<>>]}

\* Which sheets have the columns: all, all but one, none.
Resolutions ==
    {AllResolved}
    \cup {[AllResolved EXCEPT ![k] = FALSE] :
             k \in {"in", "job", "defect", "stock"}}
    \cup {[in |-> FALSE, job |-> FALSE, defect |-> FALSE, stock |-> FALSE]}

\* Return tables: empty, one row, and three rows of which the first and
\* the last share their key and the second has a key of no sheet.
AggReturnTables ==
    {<<>>,
     <<[suju |-> "S1", jisi |-> "J1", part |-> "P1", unit |-> <<5>>]>>,
     <<[suju |-> "S1", jisi |-> "J1", part |-> "P1", unit |-> <<1>>],
       [suju |-> "S9", jisi |-> "J9", part |-> "P9", unit |-> <<2>>],
       [suju |-> "S1", jisi |-> "J1", part |-> "P1", unit |-> <<3>>]>>}

AggInit ==
    /\ \E ledger \in AggLedgers :
          /\ df_in_raw = ledger.in
          /\ df_job_raw = ledger.job
          /\ df_result_raw = ledger.result
          /\ df_defect_raw = ledger.defect
          /\ df_stock_raw = ledger.stock
    /\ resolved \in Resolutions
    /\ aggregates = NoAggregates
    /\ return_mgmt \in AggReturnTables
    /\ return_expect = <<>>
    /\ rt_pc = "ledger"
    /\ load_inp = NoLoadInput
    /\ df_edit = <<>>
    /\ date_range = DefaultDateRange

\* build_aggregates is called on the five sheets.
BuildAggregatesCall ==
    /\ rt_pc = "ledger"
    /\ aggregates' = build_aggregates(df_in_raw, df_job_raw, df_result_raw,
                                      df_defect_raw, df_stock_raw)
    /\ rt_pc' = "built"
    /\ UNCHANGED <<df_in_raw, df_job_raw, df_result_raw, df_defect_raw,
                   df_stock_raw, resolved, return_mgmt, return_expect,
                   load_inp, df_edit, date_range>>

\* recalc_return_expectation returns its table.
RecalcCall ==
    /\ rt_pc = "built"
    /\ recalc_return_expectation(return_mgmt, aggregates).ok
    /\ return_expect' = recalc_return_expectation(return_mgmt, aggregates).rows
    /\ rt_pc' = "recalculated"
    /\ UNCHANGED <<df_in_raw, df_job_raw, df_result_raw, df_defect_raw,
                   df_stock_raw, resolved, aggregates, return_mgmt,
                   load_inp, df_edit, date_range>>

\* recalc_return_expectation ends in the KeyError.
RecalcRaises ==
    /\ rt_pc = "built"
    /\ ~recalc_return_expectation(return_mgmt, aggregates).ok
    /\ rt_pc' = "raised"
    /\ UNCHANGED <<df_in_raw, df_job_raw, df_result_raw, df_defect_raw,
                   df_stock_raw, resolved, aggregates, return_mgmt,
                   return_expect, load_inp, df_edit, date_range>>

-----------------------------------------------------------------------------
(* The blob store: three objects (workbook, DB snapshot, label CSV) and    *)
(* the loaders load_file_from_s3, load_db_from_s3, load_label_db_from_s3.  *)
(*                                                                         *)
(* A workbook is its set of sheets and the version of its data; the DB     *)
(* snapshot is the set of tables and the version.  A label table is a      *)
(* sequence of rows [no, name] of text cells (샘플번호, 품명); the label      *)
(* CSV is the text to_csv writes for it.                                   *)

\* REQUIRED_SHEETS (two of the seven stand for all)
REQUIRED_SHEETS ==
    {"in", "job", "suju", "bom", "stock", "result", "defect"}

\* Answers of get_object: the body, a ClientError with its Error.Code, or
\* a failure botocore raises that is not a ClientError.
ClientErrorCodes == {"NoSuchKey", "404", "AccessDenied"}

GetAnswers == {"ok"} \cup ClientErrorCodes \cup {"EndpointConnectionError"}

\* Text that read_csv infers to be a number, and the number's text.
NumberOf(text) ==
    CASE text = "007" -> "7"
      [] text = "12" -> "12"
      [] OTHER -> "text"

IsNumberText(text) == NumberOf(text) # "text"

\* Mutant of ToCsv: to_csv without index=False.
ToCsvWithIndex(df) ==
    [bom |-> TRUE,
     header |-> <<"", "no", "name">>,
     lines |-> [i \in 1..Len(df) |->
                   <<ToString(i - 1),
                     IF df[i].no = "NaN" THEN "" ELSE df[i].no,
                     IF df[i].name = "NaN" THEN "" ELSE df[i].name>>]]

\* df.to_csv(index=False), encoded utf-8-sig: the cells as text, a missing
\* value as the empty text.
ToCsv(df) ==
    [bom |-> TRUE,
     header |-> <<"no", "name">>,
     lines |-> [i \in 1..Len(df) |->
                   <<IF df[i].no = "NaN" THEN "" ELSE df[i].no,
                     IF df[i].name = "NaN" THEN "" ELSE df[i].name>>]]

\* One column as read_csv types it: numbers if every cell is a number or
\* empty, text otherwise; an empty cell is NaN.
ReadCsvCell(lines, col, i) ==
    LET cell == lines[i][col]
        numeric == \A j \in 1..Len(lines) :
                       lines[j][col] = "" \/ IsNumberText(lines[j][col])
    IN  IF cell = "" THEN "NaN"
        ELSE IF numeric THEN NumberOf(cell)
        ELSE cell

\* pd.read_csv(io.StringIO(body.decode("utf-8-sig")))
ReadCsv(csv) ==
    [i \in 1..Len(csv.lines) |->
        [no |-> ReadCsvCell(csv.lines, 1, i),
         name |-> ReadCsvCell(csv.lines, 2, i)]]

\* pd.DataFrame()
EmptyTable == <<>>

\* What a loader call yields: the value returned (none for None), whether
\* st.error was shown, and the exception that left the function.
LoadResult(none, ret, shown, raised) ==
    [none |-> none, ret |-> ret, shown |-> shown, raised |-> raised]

\* Mutant of load_db_from_s3: only NoSuchKey counts as "not there".
load_db_only_nosuchkey(client, code, body) ==
    IF ~client THEN LoadResult(TRUE, <<>>, FALSE, "none")
    ELSE IF code = "ok" THEN LoadResult(FALSE, body, FALSE, "none")
    ELSE IF code \notin ClientErrorCodes THEN LoadResult(TRUE, <<>>, FALSE, code)
    ELSE IF code = "NoSuchKey" THEN LoadResult(TRUE, <<>>, FALSE, "none")
    ELSE LoadResult(TRUE, <<>>, TRUE, "none")

\* load_db_from_s3, lines 96-109 (the function body, without the memo)
load_db_from_s3(client, code, body) ==
    IF ~client THEN LoadResult(TRUE, <<>>, FALSE, "none")
    ELSE IF code = "ok" THEN LoadResult(FALSE, body, FALSE, "none")
    ELSE IF code \notin ClientErrorCodes THEN LoadResult(TRUE, <<>>, FALSE, code)
    ELSE IF code \in {"NoSuchKey", "404"} THEN LoadResult(TRUE, <<>>, FALSE, "none")
    ELSE LoadResult(TRUE, <<>>, TRUE, "none")

\* load_file_from_s3, lines 37-50
load_file_from_s3(client, code, body) ==
    IF ~client THEN LoadResult(TRUE, <<>>, FALSE, "none")
    ELSE IF code = "ok" THEN LoadResult(FALSE, body, FALSE, "none")
    ELSE IF code \notin ClientErrorCodes THEN LoadResult(TRUE, <<>>, FALSE, code)
    ELSE IF code \in {"NoSuchKey", "404"} THEN LoadResult(TRUE, <<>>, FALSE, "none")
    ELSE LoadResult(TRUE, <<>>, TRUE, "none")

\* load_label_db_from_s3, lines 52-72
load_label_db_from_s3(client, code, body) ==
    IF ~client THEN LoadResult(FALSE, EmptyTable, FALSE, "none")
    ELSE IF code = "ok" THEN LoadResult(FALSE, ReadCsv(body), FALSE, "none")
    ELSE IF code \notin ClientErrorCodes
         THEN LoadResult(FALSE, EmptyTable, FALSE, code)
    ELSE IF code \in {"NoSuchKey", "404"}
         THEN LoadResult(FALSE, EmptyTable, FALSE, "none")
    ELSE LoadResult(FALSE, EmptyTable, TRUE, "none")

Workbook(sheets, version) == [sheets |-> sheets, version |-> version]

\* The workbooks uploaded: two complete ones, the second with a sheet the
\* program does not use, and one lacking a required sheet.
Workbooks ==
    {Workbook(REQUIRED_SHEETS, 1),
     Workbook(REQUIRED_SHEETS \cup {"notes"}, 2),
     Workbook({"in"}, 3)}

\* Whether pd.read_excel(sheet_name=REQUIRED_SHEETS) finds every sheet.
Convertible(workbook) == REQUIRED_SHEETS \subseteq workbook.sheets

\* excel_bytes_to_sqlite_bytes: one table per required sheet
excel_bytes_to_sqlite_bytes(workbook) ==
    [tables |-> REQUIRED_SHEETS, version |-> workbook.version]

\* The label tables parse_label_db reads from the files imported.
LabelTables ==
    {<<[no |-> "007", name |-> "A"]>>,
     <<[no |-> "12", name |-> ""], [no |-> "X1", name |-> "B"]>>}

\* The bodies get_object can return for each loader.
BodiesOf(call) ==
    CASE call = "file" -> Workbooks
      [] call = "db" -> {excel_bytes_to_sqlite_bytes(w) :
                            w \in {x \in Workbooks : Convertible(x)}}
      [] call = "label" -> {ToCsv(df) : df \in LabelTables}

NoResult == LoadResult(TRUE, <<>>, FALSE, "none")

LoadInit ==
    /\ ld_client \in BOOLEAN
    /\ ld_code \in GetAnswers
    /\ \E call \in {"file", "db", "label"} : ld_body \in BodiesOf(call)
    /\ ld_call = "none"
    /\ ld_result = NoResult

LoadFileCall ==
    /\ ld_call = "none"
    /\ ld_body \in BodiesOf("file")
    /\ ld_call' = "file"
    /\ ld_result' = load_file_from_s3(ld_client, ld_code, ld_body)
    /\ UNCHANGED <<ld_client, ld_code, ld_body>>

LoadDbCall ==
    /\ ld_call = "none"
    /\ ld_body \in BodiesOf("db")
    /\ ld_call' = "db"
    /\ ld_result' = load_db_from_s3(ld_client, ld_code, ld_body)
    /\ UNCHANGED <<ld_client, ld_code, ld_body>>

LoadLabelCall ==
    /\ ld_call = "none"
    /\ ld_body \in BodiesOf("label")
    /\ ld_call' = "label"
    /\ ld_result' = load_label_db_from_s3(ld_client, ld_code, ld_body)
    /\ UNCHANGED <<ld_client, ld_code, ld_body>>

LoadIdle ==
    /\ ld_client = FALSE
    /\ ld_code = "ok"
    /\ ld_body = <<>>
    /\ ld_call = Idle
    /\ ld_result = NoResult

-----------------------------------------------------------------------------
(* Sessions against the bucket.  Each put_object and each memoized load is *)
(* one step; what a handler does after its last put (clearing the memo,    *)
(* session_state, the message) belongs to the step of that put.  s3_client *)
(* is a client: with None every tab but the upload tab stops at the DB     *)
(* gate, and the upload tab only shows an error.                           *)

Sessions == {"s1", "s2"}

\* The bucket has no object under the key.
NoObject == [absent |-> TRUE]

\* An st.cache_data entry: unset, or the result the function returned
\* (with the st.error it showed, which a hit replays).
NoMemo == [set |-> FALSE, res |-> NoResult]

Memo(res) == [set |-> TRUE, res |-> res]

\* How get_object can answer for an object: its body or NoSuchKey as the
\* bucket has it, or a ClientError of the service.
GetCodes(obj) ==
    IF obj = NoObject THEN {"NoSuchKey", "AccessDenied"}
    ELSE {"ok", "AccessDenied"}

\* How put_object can answer.
PutCodes == {"ok", "AccessDenied"}

\* Mutant of clear_memo: the entry survives the write.
clear_memo_skipped(memo) == memo

\* load_db_from_s3.clear() / load_label_db_from_s3.clear()
clear_memo(memo) == NoMemo

\* A call of the memoized load_db_from_s3: the entry if set, else the
\* function body on the bucket's answer.
CachedLoadDb(code) ==
    IF memo_db.set THEN memo_db.res ELSE load_db_from_s3(TRUE, code, s3_db)

\* A call of the memoized load_label_db_from_s3.
CachedLoadLabel(code) ==
    IF memo_label.set THEN memo_label.res
    ELSE load_label_db_from_s3(TRUE, code, s3_label)

\* Mutant of save_label_db_to_s3: the object is written only if the key
\* is still free (a conditional put).
save_label_db_if_absent(df, code, stored) ==
    IF code # "ok" THEN [stored |-> stored, raised |-> "ClientError"]
    ELSE IF stored # NoObject THEN [stored |-> stored, raised |-> "none"]
    ELSE [stored |-> ToCsv(df), raised |-> "none"]

\* save_label_db_to_s3, lines 75-91: the object after the call, and the
\* exception of put_object, which nothing catches.  The clear of the memo
\* that follows a put that succeeded is clear_memo, applied by the caller.
save_label_db_to_s3(df, code, stored) ==
    IF code # "ok" THEN [stored |-> stored, raised |-> "ClientError"]
    ELSE [stored |-> ToCsv(df), raised |-> "none"]

NoTable == [set |-> FALSE, df |-> EmptyTable]

\* A snapshot put in the bucket by other means than this program's
\* upload tab; it lacks tables.
ForeignSnapshot == [tables |-> {"in", "stock"}, version |-> 0]

\* The radio "메뉴 선택": the upload tab, the label tab, any other tab.
Run(menu, logic) == [menu |-> menu, logic |-> logic]

NoRun == Run("none", FALSE)

\* required_tables, lines 1370-1376: no table is missing.
HasRequiredTables(db_bytes) == REQUIRED_SHEETS \subseteq db_bytes.tables

StoreInit ==
    /\ s3_excel = NoObject
    /\ s3_db \in {NoObject, ForeignSnapshot}
    /\ s3_label = NoObject
    /\ memo_db = NoMemo
    /\ memo_label = NoMemo
    /\ label_db = [s \in Sessions |-> NoTable]
    /\ df_init = [s \in Sessions |-> EmptyTable]
    /\ file_bytes = [s \in Sessions |-> NoObject]
    /\ outcome = "none"
    /\ last_run = NoRun

\* No run of the session is between two of its steps.
AtRest(s) == df_init[s] = EmptyTable /\ file_bytes[s] = NoObject

\* Upload tab, lines 1319-1329: the workbook is put under the Excel key.
\* A put that fails is caught by the handler's except and shown.
UploadPutWorkbook(s) ==
    /\ AtRest(s)
    /\ \E workbook \in Workbooks, code \in PutCodes :
          IF code = "ok"
          THEN /\ s3_excel' = workbook
               /\ file_bytes' = [file_bytes EXCEPT ![s] = workbook]
               /\ UNCHANGED outcome
          ELSE /\ outcome' = "error"
               /\ UNCHANGED <<s3_excel, file_bytes>>
    /\ last_run' = Run("upload", TRUE)
    /\ UNCHANGED <<s3_db, s3_label, memo_db, memo_label, label_db, df_init>>

\* Upload tab, lines 1331-1349: conversion, put of the snapshot, clear of
\* the memos, success; any exception is caught and shown.
UploadPutSnapshot(s) ==
    /\ file_bytes[s] # NoObject
    /\ file_bytes' = [file_bytes EXCEPT ![s] = NoObject]
    /\ \E code \in PutCodes :
          IF Convertible(file_bytes[s]) /\ code = "ok"
          THEN /\ s3_db' = excel_bytes_to_sqlite_bytes(file_bytes[s])
               /\ memo_db' = clear_memo(memo_db)
               /\ outcome' = "success"
          ELSE /\ outcome' = "error"
               /\ UNCHANGED <<s3_db, memo_db>>
    /\ last_run' = Run("upload", TRUE)
    /\ UNCHANGED <<s3_excel, s3_label, memo_label, label_db, df_init>>

\* DB gate, lines 1361-1364: load_db_from_s3() gives None; warning, stop.
DbGateStops(s) ==
    /\ AtRest(s)
    /\ \E code \in GetCodes(s3_db) :
          /\ CachedLoadDb(code).none
          /\ memo_db' = Memo(CachedLoadDb(code))
          /\ outcome' = IF CachedLoadDb(code).shown THEN "error" ELSE "warning"
    /\ \E menu \in {"other", "label"} : last_run' = Run(menu, FALSE)
    /\ UNCHANGED <<s3_excel, s3_db, s3_label, memo_label, label_db, df_init,
                   file_bytes>>

\* DB gate, lines 1369-1379: the snapshot lacks a required table; error,
\* stop.
DbGateMissingTables(s) ==
    /\ AtRest(s)
    /\ \E code \in GetCodes(s3_db) :
          /\ ~CachedLoadDb(code).none
          /\ ~HasRequiredTables(CachedLoadDb(code).ret)
          /\ memo_db' = Memo(CachedLoadDb(code))
    /\ outcome' = "error"
    /\ \E menu \in {"other", "label"} : last_run' = Run(menu, FALSE)
    /\ UNCHANGED <<s3_excel, s3_db, s3_label, memo_label, label_db, df_init,
                   file_bytes>>

\* Mutant of GatePasses: the tables of the snapshot are not looked at.
GatePassesAnySnapshot(code) ==
    /\ ~CachedLoadDb(code).none
    /\ memo_db' = Memo(CachedLoadDb(code))

\* The gate lets the run through to the tab: the snapshot is there and
\* has the seven tables.
GatePasses(code) ==
    /\ ~CachedLoadDb(code).none
    /\ HasRequiredTables(CachedLoadDb(code).ret)
    /\ memo_db' = Memo(CachedLoadDb(code))

\* A tab other than upload and label runs.
OtherTabRun(s) ==
    /\ AtRest(s)
    /\ \E code \in GetCodes(s3_db) : GatePasses(code)
    /\ outcome' = "ok"
    /\ last_run' = Run("other", TRUE)
    /\ UNCHANGED <<s3_excel, s3_db, s3_label, memo_label, label_db, df_init,
                   file_bytes>>

\* Label tab with "label_db" in the session: line 3190 calls
\* normalize_label_df, a name app.py never defines.
LabelTabWithTable(s) ==
    /\ AtRest(s)
    /\ label_db[s].set
    /\ \E code \in GetCodes(s3_db) : GatePasses(code)
    /\ last_run' = Run("label", TRUE)
    /\ outcome' = "NameError"
    /\ UNCHANGED <<s3_excel, s3_db, s3_label, memo_label, label_db, df_init,
                   file_bytes>>

\* Label tab, lines 3158-3160 and 3185-3190: the table loaded is not empty;
\* it goes to the session and line 3190 raises.
LabelTabLoadsTable(s) ==
    /\ AtRest(s)
    /\ ~label_db[s].set
    /\ \E code \in GetCodes(s3_db) : GatePasses(code)
    /\ last_run' = Run("label", TRUE)
    /\ \E code \in GetCodes(s3_label) :
          LET df_label_s3 == CachedLoadLabel(code)
          IN  /\ df_label_s3.ret # EmptyTable
              /\ memo_label' = Memo(df_label_s3)
              /\ label_db' = [label_db EXCEPT ![s] =
                                 [set |-> TRUE, df |-> df_label_s3.ret]]
    /\ outcome' = "NameError"
    /\ UNCHANGED <<s3_excel, s3_db, s3_label, df_init, file_bytes>>

\* Label tab, lines 3158-3184: the table loaded is empty and no file is
\* in the uploader, or the file parses to no rows; info or error, stop.
LabelTabNoTable(s) ==
    /\ AtRest(s)
    /\ ~label_db[s].set
    /\ \E code \in GetCodes(s3_db) : GatePasses(code)
    /\ last_run' = Run("label", TRUE)
    /\ \E code \in GetCodes(s3_label), parsed \in {"no file", "no rows"} :
          /\ CachedLoadLabel(code).ret = EmptyTable
          /\ memo_label' = Memo(CachedLoadLabel(code))
          /\ outcome' = IF CachedLoadLabel(code).shown \/ parsed = "no rows"
                        THEN "error" ELSE "info"
    /\ UNCHANGED <<s3_excel, s3_db, s3_label, label_db, df_init, file_bytes>>

\* Label tab, lines 3158-3171: the table loaded is empty and the file in
\* the uploader parses to df_init.
LabelImportParse(s) ==
    /\ AtRest(s)
    /\ ~label_db[s].set
    /\ \E code \in GetCodes(s3_db) : GatePasses(code)
    /\ last_run' = Run("label", TRUE)
    /\ \E code \in GetCodes(s3_label) :
          /\ CachedLoadLabel(code).ret = EmptyTable
          /\ memo_label' = Memo(CachedLoadLabel(code))
          /\ outcome' = IF CachedLoadLabel(code).shown THEN "error" ELSE "info"
    /\ \E df \in LabelTables : df_init' = [df_init EXCEPT ![s] = df]
    /\ UNCHANGED <<s3_excel, s3_db, s3_label, label_db, file_bytes>>

\* Label tab, lines 3174-3184: save_label_db_to_s3(df_init), then the
\* session takes df_init and the success message is shown.  An exception
\* of put_object ends the run before either.
LabelImportSave(s) ==
    /\ df_init[s] # EmptyTable
    /\ last_run' = Run("label", TRUE)
    /\ df_init' = [df_init EXCEPT ![s] = EmptyTable]
    /\ \E code \in PutCodes :
          LET saved == save_label_db_to_s3(df_init[s], code, s3_label)
          IN  /\ s3_label' = saved.stored
              /\ IF saved.raised = "none"
                 THEN /\ memo_label' = clear_memo(memo_label)
                      /\ label_db' = [label_db EXCEPT ![s] =
                                         [set |-> TRUE, df |-> df_init[s]]]
                      /\ outcome' = "success"
                 ELSE /\ outcome' = saved.raised
                      /\ UNCHANGED <<memo_label, label_db>>
    /\ UNCHANGED <<s3_excel, s3_db, memo_db, file_bytes>>

\* The browser tab is reloaded: a new session, an empty session_state.
NewSession(s) ==
    /\ AtRest(s)
    /\ label_db[s].set
    /\ label_db' = [label_db EXCEPT ![s] = NoTable]
    /\ outcome' = "none"
    /\ last_run' = NoRun
    /\ UNCHANGED <<s3_excel, s3_db, s3_label, memo_db, memo_label, df_init,
                   file_bytes>>

StoreIdle ==
    /\ s3_excel = NoObject
    /\ s3_db = NoObject
    /\ s3_label = NoObject
    /\ memo_db = NoMemo
    /\ memo_label = NoMemo
    /\ label_db = [s \in Sessions |-> NoTable]
    /\ df_init = [s \in Sessions |-> EmptyTable]
    /\ file_bytes = [s \in Sessions |-> NoObject]
    /\ outcome = Idle
    /\ last_run = NoRun

-----------------------------------------------------------------------------
(* Specifications                                                          *)

SpecPickInit == PickInit /\ EstIdle /\ CalcIdle /\ PdfIdle /\ CommonIdle /\ SearchIdle /\ ReturnIdle /\ LoadIdle /\ StoreIdle
SpecPickNext == PickColCall /\ UNCHANGED <<estVars, calcVars, pdfVars, commonVars, searchVars, returnVars, loadVars, storeVars>>
SpecPick == SpecPickInit /\ [][SpecPickNext]_vars

SpecEstInit == EstInit /\ PickIdle /\ CalcIdle /\ PdfIdle /\ CommonIdle /\ SearchIdle /\ ReturnIdle /\ LoadIdle /\ StoreIdle
SpecEstNext ==
    \/ EstPreview /\ UNCHANGED <<pickVars, calcVars, pdfVars, commonVars, searchVars, returnVars, loadVars, storeVars>>
    \/ EstSave /\ UNCHANGED <<pickVars, calcVars, pdfVars, commonVars, searchVars, returnVars, loadVars, storeVars>>
    \/ EstSaveRejected /\ UNCHANGED <<pickVars, calcVars, pdfVars, commonVars, searchVars, returnVars, loadVars, storeVars>>
SpecEst == SpecEstInit /\ [][SpecEstNext]_vars

SpecCalcInit ==
    CalcInit /\ PdfIdle /\ CommonIdle /\ PickIdle /\ EstIdle /\ SearchIdle /\ ReturnIdle /\ LoadIdle /\ StoreIdle
OtherThanCalc == <<pickVars, estVars, pdfVars, commonVars, searchVars, returnVars, loadVars, storeVars>>
SpecCalcNext ==
    \/ CalcWithRow /\ UNCHANGED OtherThanCalc
    \/ CalcNoRow /\ UNCHANGED OtherThanCalc
SpecCalc == SpecCalcInit /\ [][SpecCalcNext]_vars

SpecSearchInit == SearchInit /\ PickIdle /\ EstIdle /\ CalcIdle /\ PdfIdle /\ CommonIdle /\ ReturnIdle /\ LoadIdle /\ StoreIdle
SpecSearchNext ==
    \/ SearchNoBom /\ UNCHANGED <<pickVars, estVars, calcVars, pdfVars, commonVars, returnVars, loadVars, storeVars>>
    \/ SearchNoOrders /\ UNCHANGED <<pickVars, estVars, calcVars, pdfVars, commonVars, returnVars, loadVars, storeVars>>
    \/ SearchDateWindows /\ UNCHANGED <<pickVars, estVars, calcVars, pdfVars, commonVars, returnVars, loadVars, storeVars>>
    \/ SearchThirdLevel /\ UNCHANGED <<pickVars, estVars, calcVars, pdfVars, commonVars, returnVars, loadVars, storeVars>>
SpecSearch == SpecSearchInit /\ [][SpecSearchNext]_vars

SpecReturnInit == ReturnInit /\ PickIdle /\ EstIdle /\ CalcIdle /\ PdfIdle /\ CommonIdle /\ SearchIdle /\ LoadIdle /\ StoreIdle
SpecReturnNext ==
    \/ LoadReturnRejected /\ UNCHANGED <<pickVars, estVars, calcVars, pdfVars, commonVars, searchVars, loadVars, storeVars>>
    \/ LoadReturnData /\ UNCHANGED <<pickVars, estVars, calcVars, pdfVars, commonVars, searchVars, loadVars, storeVars>>
    \/ LoadReturnRaises /\ UNCHANGED <<pickVars, estVars, calcVars, pdfVars, commonVars, searchVars, loadVars, storeVars>>
    \/ ClearReturn /\ UNCHANGED <<pickVars, estVars, calcVars, pdfVars, commonVars, searchVars, loadVars, storeVars>>
SpecReturn == SpecReturnInit /\ [][SpecReturnNext]_vars

SpecReturnEditInit ==
    ReturnEditInit /\ PickIdle /\ EstIdle /\ CalcIdle /\ PdfIdle /\ CommonIdle /\ SearchIdle /\ LoadIdle /\ StoreIdle
SpecReturnEditNext ==
    \/ LoadReturnRejected /\ UNCHANGED <<pickVars, estVars, calcVars, pdfVars, commonVars, searchVars, loadVars, storeVars>>
    \/ LoadReturnData /\ UNCHANGED <<pickVars, estVars, calcVars, pdfVars, commonVars, searchVars, loadVars, storeVars>>
    \/ LoadReturnRaises /\ UNCHANGED <<pickVars, estVars, calcVars, pdfVars, commonVars, searchVars, loadVars, storeVars>>
    \/ SaveFlags /\ UNCHANGED <<pickVars, estVars, calcVars, pdfVars, commonVars, searchVars, loadVars, storeVars>>
    \/ AutoFillExtraOrders /\ UNCHANGED <<pickVars, estVars, calcVars, pdfVars, commonVars, searchVars, loadVars, storeVars>>
    \/ ClearReturn /\ UNCHANGED <<pickVars, estVars, calcVars, pdfVars, commonVars, searchVars, loadVars, storeVars>>
SpecReturnEdit == SpecReturnEditInit /\ [][SpecReturnEditNext]_vars

SpecReturnReloadInit ==
    ReturnEditInit /\ PickIdle /\ EstIdle /\ CalcIdle /\ PdfIdle /\ CommonIdle /\ SearchIdle /\ LoadIdle /\ StoreIdle
SpecReturnReloadNext ==
    \/ LoadReturnData /\ UNCHANGED <<pickVars, estVars, calcVars, pdfVars, commonVars, searchVars, loadVars, storeVars>>
    \/ LoadReturnRaises /\ UNCHANGED <<pickVars, estVars, calcVars, pdfVars, commonVars, searchVars, loadVars, storeVars>>
    \/ AutoFillExtraOrders /\ UNCHANGED <<pickVars, estVars, calcVars, pdfVars, commonVars, searchVars, loadVars, storeVars>>
    \/ ClearReturn /\ UNCHANGED <<pickVars, estVars, calcVars, pdfVars, commonVars, searchVars, loadVars, storeVars>>
    \/ LedgerReloaded /\ UNCHANGED <<pickVars, estVars, calcVars, pdfVars, commonVars, searchVars, loadVars, storeVars>>
SpecReturnReload == SpecReturnReloadInit /\ [][SpecReturnReloadNext]_vars

OtherThanPdf ==
    <<pickVars, estVars, calcVars, commonVars, searchVars, returnVars, loadVars, storeVars>>
SpecPdfInit ==
    PdfInit /\ PickIdle /\ EstIdle /\ CalcIdle /\ CommonIdle /\ SearchIdle /\ ReturnIdle /\ LoadIdle /\ StoreIdle
SpecPdfNext ==
    \/ MakeLabels /\ UNCHANGED OtherThanPdf
    \/ MakeLabelsNothingSelected /\ UNCHANGED OtherThanPdf
SpecPdf == SpecPdfInit /\ [][SpecPdfNext]_vars

OtherThanCommon ==
    <<pickVars, estVars, calcVars, pdfVars, searchVars, returnVars, loadVars, storeVars>>
SpecCommonInit ==
    CommonInit /\ PickIdle /\ EstIdle /\ CalcIdle /\ PdfIdle /\ SearchIdle /\ ReturnIdle /\ LoadIdle /\ StoreIdle
SpecCommonNext ==
    \/ CommonSearch /\ UNCHANGED OtherThanCommon
    \/ CommonSearchNoItem /\ UNCHANGED OtherThanCommon
SpecCommon == SpecCommonInit /\ [][SpecCommonNext]_vars

OtherThanReturn == <<pickVars, estVars, calcVars, pdfVars, commonVars, searchVars, loadVars, storeVars>>
SpecAggInit ==
    AggInit /\ PickIdle /\ EstIdle /\ CalcIdle /\ PdfIdle /\ CommonIdle /\ SearchIdle /\ LoadIdle /\ StoreIdle
SpecAggNext ==
    \/ BuildAggregatesCall /\ UNCHANGED OtherThanReturn
    \/ RecalcCall /\ UNCHANGED OtherThanReturn
    \/ RecalcRaises /\ UNCHANGED OtherThanReturn
SpecAgg == SpecAggInit /\ [][SpecAggNext]_vars

SpecLoadInit == LoadInit /\ PickIdle /\ EstIdle /\ CalcIdle /\ PdfIdle /\ CommonIdle /\ SearchIdle /\ ReturnIdle /\ StoreIdle
SpecLoadNext ==
    \/ LoadFileCall /\ UNCHANGED <<pickVars, estVars, calcVars, pdfVars, commonVars, searchVars, returnVars, storeVars>>
    \/ LoadDbCall /\ UNCHANGED <<pickVars, estVars, calcVars, pdfVars, commonVars, searchVars, returnVars, storeVars>>
    \/ LoadLabelCall /\ UNCHANGED <<pickVars, estVars, calcVars, pdfVars, commonVars, searchVars, returnVars, storeVars>>
SpecLoad == SpecLoadInit /\ [][SpecLoadNext]_vars

OtherThanStore == <<pickVars, estVars, calcVars, pdfVars, commonVars, searchVars, returnVars, loadVars>>

SpecStoreInit ==
    StoreInit /\ PickIdle /\ EstIdle /\ CalcIdle /\ PdfIdle /\ CommonIdle /\ SearchIdle /\ ReturnIdle /\ LoadIdle
SpecStoreNext ==
    \/ \E s \in Sessions : UploadPutWorkbook(s) /\ UNCHANGED OtherThanStore
    \/ \E s \in Sessions : UploadPutSnapshot(s) /\ UNCHANGED OtherThanStore
    \/ \E s \in Sessions : DbGateStops(s) /\ UNCHANGED OtherThanStore
    \/ \E s \in Sessions : DbGateMissingTables(s) /\ UNCHANGED OtherThanStore
    \/ \E s \in Sessions : OtherTabRun(s) /\ UNCHANGED OtherThanStore
    \/ \E s \in Sessions : LabelTabWithTable(s) /\ UNCHANGED OtherThanStore
    \/ \E s \in Sessions : LabelTabLoadsTable(s) /\ UNCHANGED OtherThanStore
    \/ \E s \in Sessions : LabelTabNoTable(s) /\ UNCHANGED OtherThanStore
    \/ \E s \in Sessions : LabelImportParse(s) /\ UNCHANGED OtherThanStore
    \/ \E s \in Sessions : LabelImportSave(s) /\ UNCHANGED OtherThanStore
    \/ \E s \in Sessions : NewSession(s) /\ UNCHANGED OtherThanStore
SpecStore == SpecStoreInit /\ [][SpecStoreNext]_vars

-----------------------------------------------------------------------------
(* C1: every row returned by recalc_return_expectation has expected stock  *)
(* = physical receipt - (produced + QC sample + other sample) * unit       *)
(* quantity - material fault - process fault, on the row's own joined      *)
(* values; receipt 100, produced 10, QC 2, other 1, unit 5, material fault *)
(* 3 and process fault 2 give 30.  The rows are read from the table the    *)
(* load stores in the session, which is the table returned.                *)

-----------------------------------------------------------------------------
(* C2: pick_col returns the first preferred name that is a column, even    *)
(* when the letter points at another column; with no preferred name        *)
(* present it returns the column at the letter's 0-based position (A=0,    *)
(* B=1, C=2, Z=25, AA=26, AG=32, AH=33) when that position is inside the   *)
(* table, and none otherwise.                                              *)

\* The positions the claim gives, letter by letter.
ClaimedPosition(letter) ==
    CASE letter = <<"A">> -> 0
      [] letter = <<"B">> -> 1
      [] letter = <<"C">> -> 2
      [] letter = <<"Z">> -> 25
      [] letter = <<"A", "A">> -> 26
      [] letter = <<"A", "G">> -> 32
      [] letter = <<"A", "H">> -> 33
      [] OTHER -> -1

PresentNames == {k \in 1..Len(pk_names) : InColumns(pk_names[k], pk_cols)}

C2_PickColPrefersNames ==
    pk_result # "unset" =>
        IF PresentNames # {}
        THEN pk_result = pk_names[Min(PresentNames)]
        ELSE ClaimedPosition(pk_letter) >= 0 =>
                IF ClaimedPosition(pk_letter) < Len(pk_cols)
                THEN pk_result = pk_cols[ClaimedPosition(pk_letter) + 1]
                ELSE pk_result = None

\* A preferred name is returned although the letter points at another,
\* existing column, and an earlier preferred name is absent.
C2_Witness ==
    /\ pk_result = "etc"
    /\ pk_names = <<"missing", "etc">>
    /\ pk_letter = <<"A", "G">>
    /\ Len(pk_cols) > 32
    /\ pk_cols[33] # "etc"

-----------------------------------------------------------------------------
(* C3: in the part-to-order search the sales orders found for the BOM      *)
(* parent codes are filtered through the windows [today, today+30],        *)
(* [today, today+365], [today-90, today], [today-180, today],              *)
(* [today-365, today] in that order; a window is evaluated only if every   *)
(* earlier one yielded zero rows, the rows shown are exactly the rows of   *)
(* the first non-empty window, and nothing is shown when all five are      *)
(* empty.                                                                  *)

\* The claim's windows, as day offsets from today.
ClaimedWindows ==
    <<<<0, 30>>, <<0, 365>>, <<-90, 0>>, <<-180, 0>>, <<-365, 0>>>>

\* The rows of the sales orders found whose due date lies in window i.
ClaimedRows(i) ==
    {df_suju_hit[k] : k \in {j \in 1..Len(df_suju_hit) :
        /\ ~df_suju_hit[j].nat
        /\ ClaimedWindows[i][1] <= df_suju_hit[j].due
        /\ df_suju_hit[j].due <= ClaimedWindows[i][2]}}

SeqRange(seq) == {seq[k] : k \in 1..Len(seq)}

-----------------------------------------------------------------------------
(* C4: the estimator yields 0 whenever any of outer diameter, inner        *)
(* diameter or height is <= 0; otherwise it yields                         *)
(* 3.14 * height * (outer^2 - inner^2) / 4 * 0.78 rounded to two decimals. *)

\* The claim's formula in grams, as the rational 6123 h (od^2 - id^2) / 10^7
\* for lengths in 0.1 mm; the result in hundredths of a gram.
ClaimedEstimate(od, id, h) ==
    LET n == 6123 * h * (od * od - id * id)
        lo == n \div 100000
    IN  IF 2 * (n - lo * 100000) < 100000 THEN lo
        ELSE IF 2 * (n - lo * 100000) > 100000 THEN lo + 1
        ELSE IF lo % 2 = 0 THEN lo ELSE lo + 1

C4_EstimatorZeroOrFormula ==
    /\ est_pc \in {"previewed", "saved", "rejected"} =>
          IF new_od <= 0 \/ new_id <= 0 \/ new_h <= 0
          THEN est_val_preview = 0
          ELSE est_val_preview = ClaimedEstimate(new_od, new_id, new_h)
    /\ est_pc = "saved" =>
          est_val = ClaimedEstimate(new_od, new_id, new_h)

\* A non-zero estimate has been shown and stored.
C4_Witness ==
    /\ est_pc = "saved"
    /\ est_val_preview > 0
    /\ est_val = est_val_preview

-----------------------------------------------------------------------------
(* C6: when the object does not exist (error code NoSuchKey or 404),       *)
(* load_file_from_s3 and load_db_from_s3 return None and                   *)
(* load_label_db_from_s3 returns an empty table, each without an error     *)
(* message; any other ClientError shows an error message and returns the   *)
(* same empty result.                                                      *)

C6_NotFoundIsSilentOtherErrorsShown ==
    (ld_call \in {"file", "db", "label"} /\ ld_client) =>
        /\ ld_code \in {"NoSuchKey", "404"} =>
              /\ ~ld_result.shown
              /\ ld_result.raised = "none"
              /\ ld_call \in {"file", "db"} => ld_result.none
              /\ ld_call = "label" => ~ld_result.none /\ ld_result.ret = <<>>
        /\ ld_code = "AccessDenied" =>
              /\ ld_result.shown
              /\ ld_result.raised = "none"
              /\ ld_call \in {"file", "db"} => ld_result.none
              /\ ld_call = "label" => ~ld_result.none /\ ld_result.ret = <<>>

\* load_db_from_s3 answered a 404 with None and no message.
C6_Witness ==
    /\ ld_call = "db"
    /\ ld_client
    /\ ld_code = "404"
    /\ ld_result.none
    /\ ~ld_result.shown

-----------------------------------------------------------------------------
(* C8: after a successful "load return data" the ERP stock of each row of  *)
(* the session's reconciliation table equals the sum of the actual stock   *)
(* quantity over the inventory rows of the row's part whose workstation is *)
(* one of WC501, WC502, WC503, WC504; rows of any other workstation never  *)
(* contribute.                                                             *)

\* The claim's ERP stock of a part.
ClaimedErpStock(part) ==
    LET Test(r) ==
            r.part = part /\ r.wc \in {"WC501", "WC502", "WC503", "WC504"}
    IN  SumNum(ColumnNum(SelectSeq(df_stock_raw, Test), "qty"))

C8_ErpStockSumsFourWorkstations ==
    rt_pc = "loaded" =>
        \A i \in 1..Len(return_expect) :
            return_expect[i].erp_stock = ClaimedErpStock(return_expect[i].part)

\* A load whose part has one inventory row, of a workstation outside the
\* four, and whose ERP stock is that row's quantity.
C8_Witness ==
    /\ rt_pc = "loaded"
    /\ df_stock_raw = <<[wc |-> "WC999", part |-> "P1", qty |-> <<7>>]>>
    /\ \E i \in 1..Len(return_expect) :
          return_expect[i].part = "P1" /\ return_expect[i].erp_stock = 7

-----------------------------------------------------------------------------
(* C5: memoized loads never return a value older than the last successful  *)
(* write: once an upload has stored the workbook and the snapshot, a call  *)
(* of load_db_from_s3 returns the snapshot now stored, and once            *)
(* save_label_db_to_s3 has stored a table, a call of load_label_db_from_s3 *)
(* returns the table now stored.  Stated on the memo entries, which are    *)
(* what the next call returns; an entry made by a get_object that failed   *)
(* (its error message is part of the entry) is not a stored value.         *)

-----------------------------------------------------------------------------
(* C7: every failing storage operation, read or write (ledger upload,      *)
(* ledger load, label-table load, label-table save), is caught and shown   *)
(* as an inline message; no storage failure leaves a run as an unhandled   *)
(* exception.                                                              *)

C7_NoStorageFailureUnhandled == outcome # "ClientError"

\* The import's put_object failed: the run ended in the ClientError, the
\* session has no table, the bucket no label object.
C7_Witness ==
    /\ outcome = "ClientError"
    /\ s3_label = NoObject
    /\ \A s \in Sessions : ~label_db[s].set

-----------------------------------------------------------------------------
(* C9: label saves are last-write-wins with no conflict detection: when    *)
(* two sessions have each loaded the same stored label table and each      *)
(* saves its own copy, both saves succeed, the store ends up holding       *)
(* exactly the copy saved last, the other session's change is absent from  *)
(* it, and neither session is told of the conflict.                        *)

\* The text of a cell in a CSV.
CellText(cell) == IF cell = "NaN" THEN "" ELSE cell

\* The CSV object holds exactly the table: one line per row, the cells of
\* the row in order.
HoldsExactly(csv, df) ==
    /\ csv # NoObject
    /\ csv.header = <<"no", "name">>
    /\ Len(csv.lines) = Len(df)
    /\ \A i \in 1..Len(df) :
          csv.lines[i] = <<CellText(df[i].no), CellText(df[i].name)>>

\* The step in which session s saves the table it parsed.
SavesOwnCopy(s) == df_init[s] # EmptyTable /\ df_init'[s] = EmptyTable

C9_LastWriteWins ==
    [][\A s \in Sessions :
          (SavesOwnCopy(s) /\ outcome' # "ClientError") =>
              /\ outcome' = "success"
              /\ HoldsExactly(s3_label', df_init[s])
              /\ \A df \in LabelTables \ {df_init[s]} :
                    ~HoldsExactly(s3_label', df)]_vars

\* Both sessions hold the table each imported, and the bucket holds that
\* of s2 only.
C9_Witness ==
    /\ label_db["s1"].set
    /\ label_db["s2"].set
    /\ label_db["s1"].df \in LabelTables
    /\ label_db["s2"].df \in LabelTables
    /\ label_db["s1"].df # label_db["s2"].df
    /\ HoldsExactly(s3_label, label_db["s2"].df)
    /\ ~HoldsExactly(s3_label, label_db["s1"].df)
    /\ outcome = "success"

-----------------------------------------------------------------------------
(* C10: after each label-table edit operation completes (initial import,   *)
(* add an item, delete selected items, bulk-edit save), the CSV object in  *)
(* the store holds exactly the label table held in that session's state.   *)
(* The initial import is the one operation a run can complete: the others  *)
(* lie behind line 3190.                                                   *)

\* The step in which an edit operation of session s completes: the
\* session's table is replaced and the success message shown.
EditCompletes(s) ==
    /\ label_db'[s] # label_db[s]
    /\ label_db'[s].set
    /\ outcome' = "success"

-----------------------------------------------------------------------------
(* C11: in the label quantity calculator the core weight offered for the   *)
(* selected label is the measured core weight whenever that is > 0, and    *)
(* the estimate is used only when the measured weight is absent or <= 0.   *)
(* "Offered" covers both the weight named in the info text and the value   *)
(* of the number_input.                                                    *)

C11_MeasuredCoreWeightFirst ==
    (calc_pc \in {"shown", "raised"} /\ row_selected) =>
        LET measured == IF selected_row.core.nan THEN 0 ELSE selected_row.core.v
        IN /\ measured > 0 =>
                /\ core_weight_input = measured
                /\ core_weight_default = measured
                /\ core_source = "measured"
           /\ core_source = "estimate" =>
                (selected_row.core.nan \/ selected_row.core.v <= 0)
           /\ (core_weight_input # measured) =>
                (selected_row.core.nan \/ selected_row.core.v <= 0)

\* A label with measured weight 2 and estimate 3 was selected and 2 is
\* offered.
C11_Witness ==
    /\ calc_pc = "shown"
    /\ row_selected
    /\ selected_row.core = [nan |-> FALSE, v |-> 2]
    /\ selected_row.est = [nan |-> FALSE, v |-> 3]
    /\ core_weight_input = 2

-----------------------------------------------------------------------------
(* C12: in the defect rollup of build_aggregates, for each (work order,    *)
(* part) key the material fault is the sum of the defect quantities of the *)
(* rows of that key whose type starts with "(원)" and the process fault    *)
(* the sum over the rows whose type starts with "(작)"; a row whose type   *)
(* starts with neither contributes to neither.  Quantities are compared as *)
(* the numbers safe_num reads from the rollup.                             *)

\* The arithmetic sum of the defect quantity over the rows of one key
\* whose type starts with the prefix.
ClaimedDefect(jisi, part, prefix) ==
    LET Test(r) == r.jisi = jisi /\ r.part = part /\ StartsWith(r.type, prefix)
    IN  SumNum(ColumnNum(SelectSeq(df_defect_raw, Test), "qty"))

AggregatesBuilt == rt_pc \in {"built", "recalculated", "raised"}

C12_DefectRollupSumsByPrefix ==
    (AggregatesBuilt /\ resolved.defect) =>
        /\ \A a \in aggregates.defect :
              /\ safe_num(a.wonbul) = ClaimedDefect(a.jisi, a.part, PrefixWon)
              /\ safe_num(a.jakbul) = ClaimedDefect(a.jisi, a.part, PrefixJak)
        /\ \A r \in RowsOf(df_defect_raw) :
              (StartsWith(r.type, PrefixWon) \/ StartsWith(r.type, PrefixJak))
                  => \E a \in aggregates.defect :
                        a.jisi = r.jisi /\ a.part = r.part

\* The rollup was built from two "(원)" rows of quantity 3 under one key.
C12_Witness ==
    /\ AggregatesBuilt
    /\ resolved.defect
    /\ Len(df_defect_raw) = 2
    /\ df_defect_raw[1] = df_defect_raw[2]
    /\ df_defect_raw[1].qty = <<3>>
    /\ StartsWith(df_defect_raw[1].type, PrefixWon)
    /\ \E a \in aggregates.defect : a.jisi = "J1" /\ a.part = "P1"

-----------------------------------------------------------------------------
(* C13: build_aggregates always returns all five rollups, an empty table   *)
(* standing for a rollup whose columns do not resolve, and                 *)
(* recalc_return_expectation applied to a non-empty return table and any   *)
(* such aggregates, an empty production-result rollup included, completes  *)
(* without error and returns a table of one row per key.                   *)

C13_DegradesWithoutHalting ==
    /\ AggregatesBuilt =>
          /\ aggregates.built
          /\ ~resolved.in => aggregates.in = {}
          /\ ~resolved.job => aggregates.job = {}
          /\ ~resolved.defect => aggregates.defect = {}
          /\ ~resolved.stock => aggregates.stock = {}
    /\ return_mgmt # <<>> => rt_pc # "raised"
    /\ (rt_pc = "recalculated" /\ return_mgmt # <<>>) => return_expect # <<>>

\* A non-empty return table met an empty production-result rollup.
C13_Witness ==
    /\ rt_pc = "raised"
    /\ return_mgmt # <<>>
    /\ aggregates.built
    /\ aggregates.result = {}
    /\ df_result_raw = <<>>

-----------------------------------------------------------------------------
(* C14: each rollup returned by build_aggregates has at most one row per   *)
(* natural key: receipts per (order, work order, part), work-order         *)
(* quantities per work order, production results per work order, defects   *)
(* per (work order, part), inventory per part.                             *)

C14_OneRowPerKey ==
    AggregatesBuilt =>
        /\ \A a, b \in aggregates.in :
              (a.suju = b.suju /\ a.jisi = b.jisi /\ a.part = b.part) => a = b
        /\ \A a, b \in aggregates.job : a.jisi = b.jisi => a = b
        /\ \A a, b \in aggregates.result : a.jisi = b.jisi => a = b
        /\ \A a, b \in aggregates.defect :
              (a.jisi = b.jisi /\ a.part = b.part) => a = b
        /\ \A a, b \in aggregates.stock : a.part = b.part => a = b

\* Two work-order rows of work order J1 with different quantities were
\* rolled up into one row.
C14_Witness ==
    /\ AggregatesBuilt
    /\ resolved.job
    /\ Len(df_job_raw) = 2
    /\ df_job_raw[1].jisi = "J1"
    /\ df_job_raw[2].jisi = "J1"
    /\ df_job_raw[1].qty # df_job_raw[2].qty
    /\ Cardinality(aggregates.job) = 1

-----------------------------------------------------------------------------
(* C15: for a ledger that went through excel_bytes_to_sqlite_bytes and was *)
(* read back from the SQLite tables, every quantity in the receipts,       *)
(* work-order, defect and inventory rollups equals the arithmetic sum of   *)
(* that quantity over the source rows sharing the key: two receipt rows    *)
(* with physical receipt 3 and 4 under one key roll up to 7.               *)

\* The arithmetic sum of one column over the rows of a sheet that pass
\* the test.
ClaimedSum(rows, Test(_), col) == SumNum(ColumnNum(SelectSeq(rows, Test), col))

C15_RollupsAreArithmeticSums ==
    AggregatesBuilt =>
        /\ resolved.in => \A a \in aggregates.in :
              LET Test(r) == r.suju = a.suju /\ r.jisi = a.jisi /\ r.part = a.part
              IN  /\ safe_num(a.real_in) = ClaimedSum(df_in_raw, Test, "real_in")
                  /\ safe_num(a.erp_out) = ClaimedSum(df_in_raw, Test, "erp_out")
        /\ resolved.job => \A a \in aggregates.job :
              LET Test(r) == r.jisi = a.jisi
              IN  safe_num(a.jisi_qty) = ClaimedSum(df_job_raw, Test, "qty")
        /\ resolved.defect => \A a \in aggregates.defect :
              LET Won(r) == /\ r.jisi = a.jisi /\ r.part = a.part
                            /\ StartsWith(r.type, PrefixWon)
                  Jak(r) == /\ r.jisi = a.jisi /\ r.part = a.part
                            /\ StartsWith(r.type, PrefixJak)
              IN  /\ safe_num(a.wonbul) = ClaimedSum(df_defect_raw, Won, "qty")
                  /\ safe_num(a.jakbul) = ClaimedSum(df_defect_raw, Jak, "qty")
        /\ resolved.stock => \A a \in aggregates.stock :
              LET Test(r) == r.part = a.part /\ r.wc \in WorkCenters
              IN  safe_num(a.erp_stock) = ClaimedSum(df_stock_raw, Test, "qty")

\* Two receipt rows with physical receipt 3 and 4 under one key were
\* rolled up.
C15_Witness ==
    /\ AggregatesBuilt
    /\ resolved.in
    /\ Len(df_in_raw) = 2
    /\ df_in_raw[1].real_in = <<3>>
    /\ df_in_raw[2].real_in = <<4>>
    /\ df_in_raw[1].part = df_in_raw[2].part
    /\ \E a \in aggregates.in : a.part = "P1" /\ safe_num(a.real_in) # 7

-----------------------------------------------------------------------------
(* C17: recalc_return_expectation is a left join keyed on the return       *)
(* table: its result has exactly one row per distinct (order, work order,  *)
(* part) key of the return table, for a repeated key the last row entered; *)
(* a key without a matching row in a rollup is still present, and every    *)
(* quantity coming from a rollup without a match is 0.                     *)

KeyOf(r) == <<r.suju, r.jisi, r.part>>

\* The unit quantity of the last row of the return table with the key.
LastUnitOf(key) ==
    LET at == {i \in 1..Len(return_mgmt) : KeyOf(return_mgmt[i]) = key}
    IN  safe_num(return_mgmt[CHOOSE i \in at : \A j \in at : j <= i].unit)

C17_LeftJoinOnReturnTable ==
    (rt_pc \in {"recalculated", "raised"} /\ return_mgmt # <<>>) =>
        /\ rt_pc = "recalculated"
        /\ \A k \in {KeyOf(r) : r \in RowsOf(return_mgmt)} :
              /\ Cardinality({i \in 1..Len(return_expect) :
                                 KeyOf(return_expect[i]) = k}) = 1
              /\ \A i \in 1..Len(return_expect) :
                    KeyOf(return_expect[i]) = k
                        => return_expect[i].unit = LastUnitOf(k)
        /\ \A i \in 1..Len(return_expect) :
              LET row == return_expect[i]
              IN  /\ KeyOf(row) \in {KeyOf(r) : r \in RowsOf(return_mgmt)}
                  /\ (~\E a \in aggregates.in : KeyOf(a) = KeyOf(row))
                        => row.erp_out = 0 /\ row.real_in = 0
                  /\ (~\E a \in aggregates.job : a.jisi = row.jisi)
                        => row.jisi_qty = 0
                  /\ (~\E a \in aggregates.result : a.jisi = row.jisi)
                        => row.prod = 0 /\ row.qc = 0 /\ row.etc = 0
                  /\ (~\E a \in aggregates.defect :
                          a.jisi = row.jisi /\ a.part = row.part)
                        => row.wonbul = 0 /\ row.jakbul = 0
                  /\ (~\E a \in aggregates.stock : a.part = row.part)
                        => row.erp_stock = 0

\* The three-row return table (a repeated key and a key of no sheet) met
\* a production-result rollup without rows.
C17_Witness ==
    /\ rt_pc = "raised"
    /\ Len(return_mgmt) = 3
    /\ aggregates.result = {}
    /\ aggregates.in # {}

-----------------------------------------------------------------------------
(* C18: the part-to-order search climbs the BOM one level at a time: the   *)
(* sales orders are searched for the second-level parent codes only when   *)
(* the first-level codes match no sales-order row, and for the third-level *)
(* codes only when the second-level codes match none either; a higher      *)
(* level is never consulted while a lower level has a match.               *)

\* The sales orders whose part is a parent code of the level.
MatchesAtLevel(level) ==
    SujuIsin(df_suju_raw,
             CASE level = 1 -> item_codes(df_bom_raw)
               [] level = 2 -> fallback_item_codes(df_bom_raw)
               [] OTHER -> third_item_codes(df_bom_raw))

C18_ClimbsOneLevelAtATime ==
    sr_pc = "done" =>
        /\ \A level \in sr_searched :
              \A lower \in 1..(level - 1) :
                 lower \in sr_searched /\ MatchesAtLevel(lower) = <<>>
        /\ sr_level # 0 => sr_level \in sr_searched
        /\ sr_level # 0 => \A lower \in 1..(sr_level - 1) :
                              MatchesAtLevel(lower) = <<>>

\* All three levels were searched and the third found a sales order.
C18_Witness ==
    /\ sr_pc = "done"
    /\ sr_searched = {1, 2, 3}
    /\ sr_level = 3
    /\ df_suju_bom2 # <<>>

-----------------------------------------------------------------------------
(* C16: the inbound-lookup, order-search, return-management,               *)
(* common-material and label tabs run only when a DB snapshot exists in    *)
(* the store and contains all seven required tables; otherwise the run     *)
(* stops with a warning or an error before any tab logic executes, and the *)
(* upload tab is the only tab that runs without a snapshot.                *)

CompleteSnapshotInStore == s3_db # NoObject /\ HasRequiredTables(s3_db)

C16_TabsRunOnlyBehindTheGate ==
    /\ (last_run.menu \in {"other", "label"} /\ last_run.logic)
          => CompleteSnapshotInStore
    /\ (last_run.menu \in {"other", "label"} /\ ~CompleteSnapshotInStore)
          => (~last_run.logic /\ outcome \in {"warning", "error"})
    /\ (last_run.logic /\ ~CompleteSnapshotInStore) => last_run.menu = "upload"

\* The label tab was chosen while the store held a snapshot without the
\* seven tables, and the run stopped with the error.
C16_Witness ==
    /\ last_run = Run("label", FALSE)
    /\ s3_db = ForeignSnapshot
    /\ memo_db.set
    /\ ~memo_db.res.none
    /\ outcome = "error"

-----------------------------------------------------------------------------
(* C20: whenever no upload is in progress, the DB snapshot in the store is *)
(* the conversion of the workbook in the store; also after an upload whose *)
(* conversion or snapshot write fails part-way, and after the uploads of   *)
(* two sessions interleave their workbook and snapshot writes.             *)

NoUploadInProgress == \A s \in Sessions : file_bytes[s] = NoObject

C20_SnapshotIsConversionOfWorkbook ==
    (NoUploadInProgress /\ s3_excel # NoObject) =>
        /\ Convertible(s3_excel)
        /\ s3_db = excel_bytes_to_sqlite_bytes(s3_excel)

\* Two uploads interleaved: both ended with the success message, the
\* store holds the workbook of one and the snapshot of the other.
C20_Witness ==
    /\ NoUploadInProgress
    /\ outcome = "success"
    /\ s3_excel # NoObject
    /\ s3_db # NoObject
    /\ Convertible(s3_excel)
    /\ s3_excel.version = 2
    /\ s3_db.version = 1

-----------------------------------------------------------------------------
(* C19: in every state reachable through the return-management actions    *)
(* (load return data, save flags, auto-fill extra orders, clear), each row *)
(* of the session's reconciliation table satisfies expected stock =        *)
(* physical receipt - (produced + QC sample + other sample) * unit         *)
(* quantity - material fault - process fault on the values stored in that  *)
(* same row.                                                               *)

-----------------------------------------------------------------------------
(* C21: whenever a session has just computed the reconciliation (load      *)
(* return data, or the recomputation of the auto-fill), the aggregates it  *)
(* used are the ones build_aggregates gives on the ledger tables the       *)
(* session has loaded at that run, also after a new ledger was loaded.     *)

AggregatesOfLoadedLedger ==
    build_aggregates(df_in_raw, df_job_raw, df_result_raw, df_defect_raw,
                     df_stock_raw)

C21_AggregatesFromLoadedLedger ==
    (rt_pc \in {"loaded", "autofilled"} /\ aggregates.built)
        => aggregates = AggregatesOfLoadedLedger

\* A load after the ledger changed: the row shows the receipt 100 of the
\* first ledger's rollup, which is still the session's.
C21_Witness ==
    /\ rt_pc = "loaded"
    /\ aggregates.built
    /\ aggregates # AggregatesOfLoadedLedger
    /\ return_expect # <<>>

-----------------------------------------------------------------------------
(* C22: every sales order the part-to-order search displays, in the table  *)
(* of the date windows or in the table of the third-level flow, has a due  *)
(* date inside one of the five windows [today, today+30], [today,          *)
(* today+365], [today-90, today], [today-180, today], [today-365, today].  *)

\* The sales orders a finished run has put on the page.
DisplayedOrders == SeqRange(df_show) \cup SeqRange(df_suju_bom2)

InSomeClaimedWindow(r) ==
    /\ ~r.nat
    /\ \E i \in 1..Len(ClaimedWindows) :
          ClaimedWindows[i][1] <= r.due /\ r.due <= ClaimedWindows[i][2]

C22_DisplayedOrdersInsideWindows ==
    sr_pc = "done" => \A r \in DisplayedOrders : InSomeClaimedWindow(r)

\* The third-level flow shows an order due in 366 days.
C22_Witness ==
    /\ sr_pc = "done"
    /\ used_bom2_flow
    /\ sr_level = 3
    /\ \E r \in SeqRange(df_suju_bom2) : ~r.nat /\ r.due = 366

-----------------------------------------------------------------------------
(* C23: generate_label_pdf puts one label per page: for any non-empty set  *)
(* of rows selected from the reconciliation table, wherever they stand in  *)
(* it, the story has a page break between every two consecutive labels and *)
(* none after the last label.                                              *)

\* The story the claim describes for n labels.
ClaimedStory(n) ==
    [k \in 1..(2 * n - 1) |-> IF k % 2 = 1 THEN "label" ELSE "PageBreak"]

C23_OneLabelPerPage ==
    pdf_pc = "made" => story = ClaimedStory(Len(df_labels_of(lbl_full)))

\* The second and third row of three are ticked: no break between the two
\* labels, one after the last.
C23_Witness ==
    /\ pdf_pc = "made"
    /\ Len(lbl_full) = 3
    /\ ~lbl_full[1].sel /\ lbl_full[2].sel /\ lbl_full[3].sel
    /\ lbl_full[1].part = "P1"
    /\ lbl_full[2].part = "P2"
    /\ lbl_full[3].part = "P2"
    /\ story = <<"label", "label", "PageBreak">>

-----------------------------------------------------------------------------
(* C29: in the common-material tab, for each finished item using the part, *)
(* with d the days from the item's latest receipt request date to today:   *)
(* the one-week mark is set exactly when d <= 7, the two-week mark exactly *)
(* when 7 < d <= 14, no mark when d > 14 or the item has no dated receipt, *)
(* and the two marks are never both set.                                   *)

\* The request dates of the item's receipts that are dates.
DatedReceipts(item) ==
    {cm_in[i].req : i \in {j \in 1..Len(cm_in) :
                              cm_in[j].item = item /\ ~cm_in[j].nat}}

\* Days from the latest of them to today.
ClaimedDays(item) ==
    Today - (CHOOSE d \in DatedReceipts(item) :
                \A e \in DatedReceipts(item) : e <= d)

C29_WeekMarks ==
    cm_pc = "shown" =>
        /\ {r.item : r \in cm_result} = cm_bom_hit
        /\ \A r \in cm_result :
              /\ ~(r.mark_1w = "V" /\ r.mark_2w = "V")
              /\ IF DatedReceipts(r.item) = {}
                 THEN r.mark_1w = "" /\ r.mark_2w = ""
                 ELSE /\ r.mark_1w = "V" <=> ClaimedDays(r.item) <= 7
                      /\ r.mark_2w = "V" <=>
                            (7 < ClaimedDays(r.item)
                             /\ ClaimedDays(r.item) <= 14)
                      /\ r.mark_1w \in {"", "V"}
                      /\ r.mark_2w \in {"", "V"}

\* Item A was last requested seven days ago (after a request fifteen days
\* ago) and has the one-week mark; item B has no dated receipt and no mark.
C29_Witness ==
    /\ cm_pc = "shown"
    /\ cm_bom_hit = {"A", "B"}
    /\ DatedReceipts("A") = {-7, -15}
    /\ DatedReceipts("B") = {}
    /\ \E r \in cm_result : r.item = "A" /\ r.mark_1w = "V" /\ r.mark_2w = ""
    /\ \E r \in cm_result : r.item = "B" /\ r.mark_1w = "" /\ r.mark_2w = ""

-----------------------------------------------------------------------------
(* C24: the auto-fill of the extra orders is idempotent: run a second time *)
(* right after the first, with the same receipt period, the same ledger    *)
(* and the editor showing what the first run stored, it leaves the extra-  *)
(* order text and every quantity of every row as the first run left them.  *)

\* The table a second run would store.
SecondAutoFill ==
    auto_fill(return_expect, EditorShowing(return_expect), date_range,
              aggregates)

C24_AutoFillIdempotent ==
    rt_pc = "autofilled" => SecondAutoFill = return_expect

\* The first run wrote the orders in the order of the receipts sheet, S3
\* before S2; the second run would write them sorted, with the same
\* quantities.
C24_Witness ==
    /\ rt_pc = "autofilled"
    /\ Len(return_expect) >= 1
    /\ return_expect[1].common
    /\ return_expect[1].extra = <<"S3", "S2">>
    /\ SecondAutoFill[1].extra = <<"S2", "S3">>
    /\ SecondAutoFill[1].real_in = return_expect[1].real_in
    /\ SecondAutoFill[1].expect = return_expect[1].expect

-----------------------------------------------------------------------------
(* C25: the auto-fill changes only the rows whose common-material flag is  *)
(* ticked in the submitted editor: in every other row the extra-order text *)
(* is the one the editor held and every quantity, the expected stock       *)
(* included, is what it was before the action.                             *)

\* The columns of a row other than the two of the editor.
QuantitiesOf(row) ==
    [k \in DOMAIN row \ {"common", "extra"} |-> row[k]]

C25_AutoFillLeavesUntickedRows ==
    [][rt_pc' = "autofilled" =>
          /\ Len(return_expect') = Len(return_expect)
          /\ Len(df_edit') = Len(return_expect)
          /\ \A i \in 1..Len(return_expect) :
                /\ return_expect'[i].common = df_edit'[i][1]
                /\ ~df_edit'[i][1] =>
                      /\ return_expect'[i].extra = df_edit'[i][2]
                      /\ QuantitiesOf(return_expect'[i])
                            = QuantitiesOf(return_expect[i])]_vars

\* Of two rows the second is ticked and was recomputed with the extra
\* order found; the first is not ticked and keeps the text typed in the
\* editor and its quantities.
C25_Witness ==
    /\ rt_pc = "autofilled"
    /\ Len(return_expect) = 2
    /\ ~return_expect[1].common /\ return_expect[2].common
    /\ return_expect[1].extra = <<"S2">> /\ return_expect[2].extra = <<"S2">>
    /\ return_expect[1].part = "P2" /\ return_expect[2].part = "P1"
    /\ return_expect[1].real_in = 0 /\ return_expect[2].real_in = 104

-----------------------------------------------------------------------------
(* C26: a press of "load return data" with an empty order number, no       *)
(* selected work order, or no ticked BOM row (the component list empty or  *)
(* nothing ticked in it) ends with a message and leaves the session's      *)
(* return table, reconciliation table and aggregates as they were; no such *)
(* press gets as far as the load.                                          *)

\* The presses the claim names.
ClaimedRefused(inp) == inp[1] = "" \/ inp[2] = "" \/ inp[3] = <<>>

C26_RefusedLoadChangesNothing ==
    [][/\ rt_pc' = "rejected" =>
             UNCHANGED <<return_mgmt, return_expect, aggregates>>
       /\ rt_pc' \in {"loaded", "raised"} => ~ClaimedRefused(load_inp')]_vars

\* A refused press after a load: the tables of the load are still there.
C26_Witness ==
    /\ rt_pc = "rejected"
    /\ aggregates.built
    /\ Len(return_mgmt) = 3
    /\ Len(return_expect) = 2

-----------------------------------------------------------------------------
(* C27: a successful "load return data" replaces and never appends: after  *)
(* it the return table holds exactly one row per ticked BOM row, each with *)
(* the entered order number and the selected work order, and the           *)
(* reconciliation table holds rows of this load only.                      *)

C27_LoadReplaces ==
    rt_pc = "loaded" =>
        /\ Len(return_mgmt) = Len(load_inp[3])
        /\ \A i \in 1..Len(return_mgmt) :
              /\ return_mgmt[i].suju = load_inp[1]
              /\ return_mgmt[i].jisi = load_inp[2]
              /\ return_mgmt[i].part = load_inp[3][i].part
              /\ return_mgmt[i].unit = load_inp[3][i].unit
        /\ Len(return_expect) <= Len(return_mgmt)
        /\ \A k \in 1..Len(return_expect) :
              /\ return_expect[k].suju = load_inp[1]
              /\ return_expect[k].jisi = load_inp[2]
              /\ \E i \in 1..Len(load_inp[3]) :
                    return_expect[k].part = load_inp[3][i].part
              /\ \A j \in 1..Len(return_expect) :
                    return_expect[j].part = return_expect[k].part => j = k

\* A load of the single component P1: one row in each table.
C27_Witness ==
    /\ rt_pc = "loaded"
    /\ load_inp = <<"S1", "J1", <<[part |-> "P1", unit |-> <<5>>]>>>>
    /\ Len(return_mgmt) = 1
    /\ Len(return_expect) = 1
    /\ return_expect[1].part = "P1"

-----------------------------------------------------------------------------
(* C28: once a non-empty label table exists, in the store or in the        *)
(* session, a run of the label tab that has the table reaches the quantity *)
(* calculator and the add / delete / edit controls without an unhandled    *)
(* error.                                                                  *)

C28_LabelTabReachesCalculator ==
    (last_run = Run("label", TRUE) /\ \E s \in Sessions : label_db[s].set)
        => outcome # "NameError"

\* A session took the stored table and its run ended at line 3190.
C28_Witness ==
    /\ last_run = Run("label", TRUE)
    /\ outcome = "NameError"
    /\ s3_label # NoObject
    /\ \E s \in Sessions : label_db[s].set /\ label_db[s].df = ReadCsv(s3_label)

=============================================================================
